---- MODULE Spec2Model ----
(***************************************************************************)
(* State-machine model of the queue-fed SQLite storage engine              *)
(* (src/src/StorageDB/sqlite_db.py, class SQLITE_DB).                      *)
(*                                                                         *)
(* One engine instance, its injected asyncio queue, its aiosqlite          *)
(* connection and the database file.  Every action is the code that runs   *)
(* between two await points of one coroutine: asyncio is cooperative, so   *)
(* that code is atomic.  The coroutines are the background writer task     *)
(* (_writer_loop), the owner that drives the lifecycle (init_db,           *)
(* create_table, start_writer, close_db) and the producers                 *)
(* (enqueue_insert).  The point lookups and reads change no state and are  *)
(* operators over the state.                                               *)
(*                                                                         *)
(* The producer is MessageProcessor.Fetcher                                *)
(* (src/src/WhatsApp/message_processor.py), which encrypts new messages    *)
(* with MessageEncryptor (src/src/Encryption) when it was built with a key.*)
(*                                                                         *)
(* The second part models ProfileManager                                   *)
(* (src/src/BrowserManager/profile_manager.py) on the profile directories  *)
(* of src/src/directory.py, with callers in separate processes.  The two   *)
(* parts share no state: Spec and FairSpec run the engine with the profile *)
(* store untouched, ProfileSpec runs the profile store.  ActivateSpec and  *)
(* BackupSpec run activate_profile and create_backup on profile            *)
(* directories found in any state; LifetimeSpec runs every operation on a  *)
(* created profile with delete_profile taken one file-system call at a     *)
(* time.                                                                   *)
(*                                                                         *)
(* BrowserSpec runs the launch and close of BrowserManager                 *)
(* (src/src/BrowserManager/__init__.py), which registers its profile in    *)
(* the registry of active profiles and reads the profile store.            *)
(*                                                                         *)
(* Three library parts stand next to them, each with a specification of    *)
(* its own: the registry of active profiles                                *)
(* (src/src/BrowserManager/runtime_state.py) under RegistrySpec, callers   *)
(* of MessageEncryptor and MessageDecryptor on a symbolic AES-GCM under    *)
(* CryptoSpec, and callers of KeyManager's key derivation                  *)
(* (src/src/Encryption/key_manager.py) under KdfSpec.                      *)
(***************************************************************************)
EXTENDS Integers, Sequences, FiniteSets, TLC

\* ------------------------------------------------------------------ bounds
MaxEnqueued == 3        \* messages put on the queue over a whole run
BatchSize == 2          \* batch_size given to the constructor
MaxTime == 2            \* seconds of wall-clock time the profile runs cover
MaxBackups == 2         \* backup.max_backups of the profile metadata
MaxBackupCalls == 3     \* create_backup calls on one profile directory
MaxRegistryCalls == 4   \* register/unregister calls over a whole run
MaxDerives == 2         \* key derivation calls over a whole run

\* ------------------------------------------------------- program constants
FlushInterval == 2      \* flush_interval default, seconds
Backoff == 1            \* asyncio.sleep(1) after a writer-loop error
DefaultLimit == 1000    \* kwargs.get('limit', 1000)
DefaultOffset == 0      \* kwargs.get('offset', 0)
QueueMaxsize == 0       \* the injected asyncio.Queue is unbounded (maxsize 0)
DEFAULT_KEY_LENGTH == 32  \* KeyManager.DEFAULT_KEY_LENGTH, bytes
MinSaltLen == 8         \* derive_key: len(salt) < 8 is refused

\* The message_id values and the texts the producers use.
Ids == {"m1", "m2"}
\* The producer-supplied messages: identity and text.  m1 is scraped with two
\* different texts, m2 with an empty text (a message without text, such as a
\* media message).
Messages ==
    {[message_id |-> "m1", raw_data |-> "a"],
     [message_id |-> "m1", raw_data |-> "b"],
     [message_id |-> "m2", raw_data |-> ""]}

VARIABLES
    conn,         \* self._conn: "none" (None) or "open"
    tableExists,  \* the messages table exists in the database file
    committed,    \* rows committed to the database file, in rowid order
    connRows,     \* the table as self._conn sees it: the committed rows and
                  \* the changes of its open transaction
    running,      \* self._running
    wpc,          \* the writer task: "none" (self._writer_task is None) or
                  \* the await point / final state of its coroutine
    cancelReq,    \* Task.cancel() was called and is not yet delivered
    batch,        \* _writer_loop's local list `batch`
    queue,        \* self.queue, oldest item first
    sinceFlush,   \* loop time - last_flush, saturating at FlushInterval
    timer,        \* time since the writer's current phase began, saturating
    cpc,          \* close_db: "idle", "join" (await self._writer_task),
                  \* "connclose" (await self._conn.close())
    enqueued,     \* history: every message put on the queue, in put order
    enqBusy,      \* history: the newest item of the queue was put while the
                  \* writer was inserting, committing or backing off
    flushed,      \* history: messages of batches whose insert+commit succeeded
    failing,      \* history: the last batch insert of the live writer failed
    atClose,      \* history: the message_ids of the writer's batch when the
                  \* last close_db was called (on an open connection with
                  \* the table present)
    closeReturned, \* history: close_db returned normally and neither init_db
                  \* nor start_writer was called since
    reclosed,     \* history: the last close_db was called on an engine on
                  \* which close_db had already returned
    encryptor,    \* MessageProcessor.encryptor is set (the producer was built
                  \* with an encryption key)
    fs,           \* the profile directories on disk
    pc,           \* per caller: where it is inside a ProfileManager operation
    arg,          \* per caller: the profile its operation is about
    local,        \* per caller: the metadata dict it has read
    result,       \* per caller: how its last operation ended
    interleaved,  \* history, per caller: another caller changed the profile
                  \* directory while this caller's operation was under way
    now,          \* the wall clock, in seconds
    ACTIVE_PROFILES, \* runtime_state.ACTIVE_PROFILES, a Python set
    reg_log,      \* history: the register/unregister calls made, in order
    reg_raised,   \* history: the last registry call raised an exception
    sealed,       \* the last call of a MessageEncryptor encrypt method: its
                  \* arguments and what it returned or raised
    opened,       \* the last call of a MessageDecryptor decrypt method: its
                  \* arguments and what it returned or raised
    kdf_log,      \* history: the KeyManager derivation calls made, in order,
                  \* each with its arguments and what it returned or raised
    mgr           \* per BrowserManager of this process: its constructor
                  \* arguments, self.browser and where __GetBrowser__ is

engineVars ==
    <<conn, tableExists, committed, connRows, running, wpc, cancelReq, batch,
      queue, sinceFlush, timer, cpc, enqueued, enqBusy, flushed, failing,
      atClose, closeReturned, reclosed, encryptor>>

profileVars == <<fs, pc, arg, local, result, interleaved, now>>

registryVars == <<ACTIVE_PROFILES, reg_log, reg_raised>>

cryptoVars == <<sealed, opened>>

libVars == <<registryVars, cryptoVars, kdf_log, mgr>>

vars == <<engineVars, profileVars, libVars>>

dbVars == <<conn, tableExists, committed, connRows>>
histVars ==
    <<enqueued, enqBusy, flushed, failing, atClose, closeReturned, reclosed>>

\* ----------------------------------------------------------------- helpers
Min(a, b) == IF a < b THEN a ELSE b

SeqToSet(s) == {s[i] : i \in DOMAIN s}

MsgIds(s) == {s[i].message_id : i \in DOMAIN s}

CommittedIds == MsgIds(committed)

\* Lists a producer passes to one enqueue_insert call: one or two messages.
CallArgs == [{1} -> Messages] \cup [{1, 2} -> Messages]

\* The coroutine of the writer task is suspended at an await (or not yet run).
WriterAlive ==
    wpc \in {"start", "wait", "exec", "commit", "sleep",
             "final_exec", "final_commit"}

\* --------------------------------------------------------------- encryption
\* The producer's encryption_key and the nonces os.urandom(12) returns.
Key == "k1"
Nonces == {"n1"}

\* Python values: None, a str or a bytes object, with the content as a
\* sequence of units.  A unit is a piece of text or a block of bytes.
None == [type |-> "NoneType", data |-> <<>>]
Str(units) == [type |-> "str", data |-> units]
Bytes(units) == [type |-> "bytes", data |-> units]

\* The Python str of a text of the engine model.
PyStr(text) == Str(IF text = "" THEN <<>> ELSE <<text>>)

\* The number of bytes of a block: what os.urandom(12) and os.urandom(16)
\* return, the 11 bytes of b"wrong_nonce", the 12 bytes of b"invalid_salt",
\* salts of 7 and of 8 bytes; any other unit is one byte.
UnitLen(u) ==
    CASE u \in {"n1", "n2"} -> 12
      [] u = "wrong_nonce" -> 11
      [] u \in {"s16a", "s16b"} -> 16
      [] u = "invalid_salt" -> 12
      [] u = "s8" -> 8
      [] u = "s7" -> 7
      [] OTHER -> 1

\* len(v) of a str or bytes value
RECURSIVE py_len(_)
py_len(v) ==
    IF v.data = <<>> THEN 0
    ELSE UnitLen(Head(v.data)) + py_len([v EXCEPT !.data = Tail(v.data)])

\* `if v`: a value that is not None and not empty.
truthy(v) == v.data # <<>>

\* text.encode('utf-8')
utf8_encode(v) == Bytes(v.data)

\* data.decode('utf-8'): the byte "xff" is no UTF-8.
utf8_decode(v) ==
    IF \E i \in DOMAIN v.data : v.data[i] = "xff"
    THEN [raised |-> "UnicodeDecodeError", value |-> None]
    ELSE [raised |-> "", value |-> Str(v.data)]

\* UnicodeDecodeError is a subclass of ValueError.
IsValueError(exc) == exc \in {"ValueError", "UnicodeDecodeError"}

\* getattr(msg, name, None)
Attr(msg, name) == IF name \in DOMAIN msg THEN msg[name] ELSE None

\* A ciphertext with its tag, as one block: the key, nonce, associated data and
\* plaintext it was made from, the tag intact or not.  The library takes an
\* associated_data of None for b"".
Sealed(key, nonce, aad, plaintext, tag) ==
    [key |-> key, nonce |-> nonce, aad |-> aad, plaintext |-> plaintext,
     tag |-> tag]

\* AESGCM(key).encrypt(nonce, plaintext, associated_data)
aesgcm_encrypt(key, nonce, plaintext, aad) ==
    Bytes(<<Sealed(key, nonce.data, aad.data, plaintext.data, "ok")>>)

\* AESGCM(key).decrypt(nonce, ciphertext, associated_data): the plaintext when
\* the tag verifies, InvalidTag otherwise.
aesgcm_decrypt(key, nonce, ciphertext, aad) ==
    IF /\ Len(ciphertext.data) = 1
       /\ ciphertext.data[1].tag = "ok"
       /\ ciphertext.data[1].key = key
       /\ ciphertext.data[1].nonce = nonce.data
       /\ ciphertext.data[1].aad = aad.data
    THEN [raised |-> "", value |-> Bytes(ciphertext.data[1].plaintext)]
    ELSE [raised |-> "InvalidTag", value |-> None]

\* base64.b64encode(x).decode("utf-8"): a str holding the base64 text of x.
b64encode_str(x) == Str(<<"b64">> \o x.data)

\* base64.b64decode of the base64 text.
b64decode(v) ==
    IF v.type = "str" /\ v.data # <<>> /\ Head(v.data) = "b64"
    THEN Bytes(Tail(v.data))
    ELSE None

\* encrypt that leaves the associated data out of the encryption.
encrypt_drop_aad(key, nonce, plaintext, associated_data) ==
    LET data == IF plaintext.type = "str" THEN utf8_encode(plaintext)
                ELSE plaintext
    IN  IF ~truthy(data)
        THEN [raised |-> "ValueError", nonce |-> None, ciphertext |-> None]
        ELSE [raised |-> "", nonce |-> nonce,
              ciphertext |-> aesgcm_encrypt(key, nonce, data, None)]

\* MessageEncryptor.encrypt(plaintext, associated_data) with the nonce that
\* os.urandom(12) returned.
encrypt(key, nonce, plaintext, associated_data) ==
    LET data == IF plaintext.type = "str" THEN utf8_encode(plaintext)
                ELSE plaintext
    IN  IF ~truthy(data)
        THEN [raised |-> "ValueError", nonce |-> None, ciphertext |-> None]
        ELSE [raised |-> "", nonce |-> nonce,
              ciphertext |-> aesgcm_encrypt(key, nonce, data, associated_data)]

\* MessageEncryptor.encrypt_bytes(data, associated_data)
encrypt_bytes(key, nonce, data, associated_data) ==
    IF ~truthy(data)
    THEN [raised |-> "ValueError", nonce |-> None, ciphertext |-> None]
    ELSE [raised |-> "", nonce |-> nonce,
          ciphertext |-> aesgcm_encrypt(key, nonce, data, associated_data)]

\* `message_id.encode('utf-8') if message_id else None`
message_aad(message_id) ==
    IF truthy(message_id) THEN utf8_encode(message_id) ELSE None

\* MessageEncryptor.encrypt_message(message, message_id)
encrypt_message(key, nonce, message, message_id) ==
    encrypt(key, nonce, message, message_aad(message_id))

\* MessageDecryptor.decrypt_bytes(nonce, ciphertext, associated_data)
decrypt_bytes(key, nonce, ciphertext, associated_data) ==
    IF nonce.type = "NoneType" \/ ciphertext.type = "NoneType"
    THEN [raised |-> "TypeError", value |-> None]
    ELSE IF py_len(nonce) # 12 THEN [raised |-> "ValueError", value |-> None]
    ELSE IF ~truthy(ciphertext) THEN [raised |-> "ValueError", value |-> None]
    ELSE aesgcm_decrypt(key, nonce, ciphertext, associated_data)

\* MessageDecryptor.decrypt(nonce, ciphertext, associated_data)
decrypt(key, nonce, ciphertext, associated_data) ==
    LET plaintext == decrypt_bytes(key, nonce, ciphertext, associated_data)
    IN  IF plaintext.raised # "" THEN plaintext
        ELSE utf8_decode(plaintext.value)

\* decrypt_message that leaves the message_id out of the decryption.
decrypt_message_no_id(key, nonce, ciphertext, message_id) ==
    decrypt(key, nonce, ciphertext, None)

\* MessageDecryptor.decrypt_message(nonce, ciphertext, message_id)
decrypt_message(key, nonce, ciphertext, message_id) ==
    decrypt(key, nonce, ciphertext, message_aad(message_id))

\* decrypt_safe with `except InvalidTag` only.
decrypt_safe_tag_only(key, nonce, ciphertext, associated_data) ==
    LET r == decrypt(key, nonce, ciphertext, associated_data)
    IN  IF r.raised = "InvalidTag" THEN [raised |-> "", value |-> None]
        ELSE r

\* MessageDecryptor.decrypt_safe(nonce, ciphertext, associated_data)
decrypt_safe(key, nonce, ciphertext, associated_data) ==
    LET r == decrypt(key, nonce, ciphertext, associated_data)
    IN  IF r.raised = "InvalidTag" \/ IsValueError(r.raised)
        THEN [raised |-> "", value |-> None]
        ELSE r

\* Fetcher's encryption step for one new message: the base64 texts of the
\* ciphertext and of the nonce are set on the message, as str; a message whose
\* encryption raises is left as it is.
FetcherEncrypt(msg, nonce) ==
    LET enc == encrypt_message(Key, Bytes(<<nonce>>), PyStr(msg.raw_data),
                               PyStr(msg.message_id))
    IN  IF enc.raised # "" THEN msg
        ELSE [message_id |-> msg.message_id,
              raw_data |-> msg.raw_data,
              encrypted_message |-> b64encode_str(enc.ciphertext),
              encryption_nonce |-> b64encode_str(enc.nonce)]

\* ------------------------------------------------------------ the database
\* AUTOINCREMENT: one more than the largest rowid in the table.
MaxRowId(tbl) ==
    IF tbl = <<>> THEN 0
    ELSE CHOOSE n \in {tbl[i].id : i \in DOMAIN tbl} :
             \A i \in DOMAIN tbl : tbl[i].id <= n

\* `bytes(x) if x else None`: None for a value that is falsy, the bytes for
\* bytes; bytes() of a str without an encoding raises TypeError.
to_bytes(v) == IF v.data = <<>> THEN None ELSE v

\* bytes() that converts a str as well.
to_bytes_accepts_str(v) == FALSE

to_bytes_raises(v) == v.data # <<>> /\ v.type = "str"

\* _message_to_record raises for this message.
record_raises(msg) ==
    \/ to_bytes_raises(Attr(msg, "encrypted_message"))
    \/ to_bytes_raises(Attr(msg, "encryption_nonce"))

\* _message_to_record: the tuple bound to the INSERT's placeholders.
message_to_record(msg) ==
    [message_id |-> msg.message_id,
     raw_data |-> msg.raw_data,
     encrypted_message |-> to_bytes(Attr(msg, "encrypted_message")),
     encryption_nonce |-> to_bytes(Attr(msg, "encryption_nonce"))]

\* The row an INSERT adds for a record: the next rowid and the bound columns.
NewRow(tbl, rec) ==
    [id |-> MaxRowId(tbl) + 1,
     message_id |-> rec.message_id,
     raw_data |-> rec.raw_data,
     encrypted_message |-> rec.encrypted_message,
     encryption_nonce |-> rec.encryption_nonce]

\* A plain INSERT on a table without the UNIQUE constraint: every record
\* becomes a row.
InsertPlain(tbl, rec) == Append(tbl, NewRow(tbl, rec))

\* INSERT OR REPLACE: the row holding the message_id is deleted and the record
\* becomes a new row.
InsertOrReplace(tbl, rec) ==
    LET kept == SelectSeq(tbl, LAMBDA r : r.message_id # rec.message_id)
    IN  Append(kept, NewRow(tbl, rec))

\* INSERT OR IGNORE INTO messages ...: a record whose message_id is already in
\* the table (UNIQUE constraint) is dropped, any other gets the next rowid.
InsertOrIgnore(tbl, rec) ==
    IF \E i \in DOMAIN tbl : tbl[i].message_id = rec.message_id
    THEN tbl
    ELSE Append(tbl, NewRow(tbl, rec))

\* executemany(insert_sql, records) on the rows the connection sees.
RECURSIVE ExecuteMany(_, _)
ExecuteMany(tbl, records) ==
    IF records = <<>> THEN tbl
    ELSE ExecuteMany(InsertOrIgnore(tbl, Head(records)), Tail(records))

\* A conversion loop without the inner try: one message whose conversion
\* raises loses the records of the whole batch.
ToRecords_all_or_nothing(msgs) ==
    IF \E i \in DOMAIN msgs : record_raises(msgs[i]) THEN <<>>
    ELSE [i \in DOMAIN msgs |-> message_to_record(msgs[i])]

\* The conversion loop of _insert_batch_internally: a message whose
\* conversion raises is logged and skipped, the others become records.
RECURSIVE ToRecords(_)
ToRecords(msgs) ==
    IF msgs = <<>> THEN <<>>
    ELSE IF record_raises(Head(msgs)) THEN ToRecords(Tail(msgs))
    ELSE <<message_to_record(Head(msgs))>> \o ToRecords(Tail(msgs))

\* The table on self._conn after executemany ran on the first k records
\* (k = Len(records): the whole statement ran).
RowsAfter(records, k) == ExecuteMany(connRows, SubSeq(records, 1, k))

\* ----------------------------------------------------------- ProfileManager
\* (src/src/BrowserManager/profile_manager.py, src/src/directory.py)
\* The profile directory of one (platform, profile_id), and callers of
\* ProfileManager that run in processes of their own: caller c has process id
\* c.  Operations on different profiles share no file.  create_profile
\* and activate_profile are split at their file-system calls, which other
\* callers can interleave with; the other operations are one step each.
ProfileIds == {"A"}
Callers == {1, 2}

getpid(c) == c

\* The top-level keys of metadata.json that the operations index.
MetaKeys == {"paths", "backup", "status"}

\* No metadata.json.
NoMeta ==
    [exists |-> FALSE, keys |-> {}, is_active |-> FALSE, last_active_pid |-> 0,
     created_at |-> 0, last_used |-> 0, enabled |-> FALSE, max_backups |-> 0]

\* No profile directory: nothing below it exists either.
NoDir ==
    [dir |-> FALSE, cache |-> FALSE, skeleton |-> FALSE, meta |-> NoMeta,
     lock |-> 0, session_mtime |-> 0, backups |-> {}, backup_calls |-> 0]

\* _generate_metadata at time t: every key, status.is_active False,
\* last_active_pid None, backups enabled.
generate_metadata(t) ==
    [exists |-> TRUE, keys |-> MetaKeys, is_active |-> FALSE,
     last_active_pid |-> 0,
     created_at |-> t, last_used |-> t, enabled |-> TRUE,
     max_backups |-> MaxBackups]

CreateSteps ==
    {"create_mkroot", "create_mkcache", "create_skeleton", "create_metadata"}

ActivateSteps == {"activate_write", "activate_lock"}

\* No caller is inside an operation; the profile directories are dirs.
ProfileStart(dirs) ==
    /\ fs = dirs
    /\ pc = [c \in Callers |-> "idle"]
    /\ arg = [c \in Callers |-> "A"]
    /\ local = [c \in Callers |-> NoMeta]
    /\ result = [c \in Callers |-> "none"]
    /\ interleaved = [c \in Callers |-> FALSE]
    /\ now = 0

\* No profile was created yet.
ProfileInit == ProfileStart([p \in ProfileIds |-> NoDir])

\* Caller c starts an operation on profile p.
Begin(c, p) ==
    /\ pc[c] = "idle"
    /\ arg' = [arg EXCEPT ![c] = p]

\* Caller c's operation ends with outcome r (a return or a raised error).
Finish(c, r) ==
    /\ pc' = [pc EXCEPT ![c] = "idle"]
    /\ result' = [result EXCEPT ![c] = r]
    /\ local' = [local EXCEPT ![c] = NoMeta]

\* Caller c's operation goes on to its next file-system call.
Goto(c, step) ==
    /\ pc' = [pc EXCEPT ![c] = step]
    /\ result' = [result EXCEPT ![c] = "pending"]
    /\ UNCHANGED local

\* Caller c writes below profile p: the callers that are inside an operation
\* on p have been interleaved with; c itself starts or stays as it is.
Touch(c, p, starts) ==
    interleaved' =
        [d \in Callers |->
            IF d = c THEN (IF starts THEN FALSE ELSE interleaved[c])
            ELSE interleaved[d] \/ (pc[d] # "idle" /\ arg[d] = p)]

\* Caller c changes nothing on disk in this step.
NoTouch(c, starts) ==
    interleaved' = [interleaved EXCEPT ![c] = IF starts THEN FALSE ELSE @]

\* create_profile without the exists test.
create_profile_unchecked(c, p) ==
    /\ Begin(c, p)
    /\ Goto(c, "create_mkroot")
    /\ NoTouch(c, TRUE)
    /\ UNCHANGED <<fs, now>>
    /\ UNCHANGED <<engineVars, libVars>>

\* create_profile up to `if profile_dir.exists(): raise ValueError`.
create_profile(c, p) ==
    /\ Begin(c, p)
    /\ IF fs[p].dir
       THEN Finish(c, "already_exists")
       ELSE Goto(c, "create_mkroot")
    /\ NoTouch(c, TRUE)
    /\ UNCHANGED <<fs, now>>
    /\ UNCHANGED <<engineVars, libVars>>

\* profile_dir.mkdir(parents=True, exist_ok=True): never fails on a directory
\* that is already there.
create_mkroot(c) ==
    /\ pc[c] = "create_mkroot"
    /\ fs' = [fs EXCEPT ![arg[c]].dir = TRUE]
    /\ Goto(c, "create_mkcache")
    /\ Touch(c, arg[c], FALSE)
    /\ UNCHANGED <<arg, now>>
    /\ UNCHANGED <<engineVars, libVars>>

\* (profile_dir / "cache").mkdir(): FileNotFoundError without the profile
\* directory, FileExistsError when cache is already there.
create_mkcache(c) ==
    /\ pc[c] = "create_mkcache"
    /\ IF ~fs[arg[c]].dir
       THEN Finish(c, "file_not_found_error") /\ UNCHANGED fs
                /\ NoTouch(c, FALSE)
       ELSE IF fs[arg[c]].cache
       THEN Finish(c, "file_exists_error") /\ UNCHANGED fs
                /\ NoTouch(c, FALSE)
       ELSE /\ fs' = [fs EXCEPT ![arg[c]].cache = TRUE]
            /\ Goto(c, "create_skeleton")
            /\ Touch(c, arg[c], FALSE)
    /\ UNCHANGED <<arg, now>>
    /\ UNCHANGED <<engineVars, libVars>>

\* backups, media and its four sub-directories, then session.json,
\* cookies.json and fingerprint.pkl.
create_skeleton(c) ==
    /\ pc[c] = "create_skeleton"
    /\ IF ~fs[arg[c]].dir
       THEN Finish(c, "file_not_found_error") /\ UNCHANGED fs
                /\ NoTouch(c, FALSE)
       ELSE IF fs[arg[c]].skeleton
       THEN Finish(c, "file_exists_error") /\ UNCHANGED fs
                /\ NoTouch(c, FALSE)
       ELSE /\ fs' = [fs EXCEPT ![arg[c]].skeleton = TRUE,
                                ![arg[c]].session_mtime = now]
            /\ Goto(c, "create_metadata")
            /\ Touch(c, arg[c], FALSE)
    /\ UNCHANGED <<arg, now>>
    /\ UNCHANGED <<engineVars, libVars>>

\* metadata = self._generate_metadata(...); json.dump into metadata.json.
create_metadata(c) ==
    /\ pc[c] = "create_metadata"
    /\ IF ~fs[arg[c]].dir
       THEN Finish(c, "file_not_found_error") /\ UNCHANGED fs
                /\ NoTouch(c, FALSE)
       ELSE /\ fs' = [fs EXCEPT ![arg[c]].meta = generate_metadata(now)]
            /\ Finish(c, "created")
            /\ Touch(c, arg[c], FALSE)
    /\ UNCHANGED <<arg, now>>
    /\ UNCHANGED <<engineVars, libVars>>

\* get_profile: ValueError without metadata.json.
get_profile(c, p) ==
    /\ Begin(c, p)
    /\ Finish(c, IF fs[p].meta.exists THEN "got" ELSE "not_found")
    /\ NoTouch(c, TRUE)
    /\ UNCHANGED <<fs, now>>
    /\ UNCHANGED <<engineVars, libVars>>

\* list_profiles(platform): the names of the directories below the platform
\* directory.
list_profiles == {p \in ProfileIds : fs[p].dir}

\* get_active_profiles(platform): the profiles whose metadata.json reports
\* status.is_active.
get_active_profiles ==
    {p \in DOMAIN fs : fs[p].meta.exists /\ fs[p].meta.is_active}

\* Activation never returns early.
already_active_never(metadata) == FALSE

\* `if metadata["status"]["is_active"]: return`
already_active(metadata) == metadata.is_active

\* activate_profile up to its return for an active profile: ValueError without
\* the directory or without metadata.json, then the metadata is read;
\* ValueError when `metadata.get("paths")` is empty, KeyError from
\* metadata["status"] without that key.
activate_profile(c, p) ==
    /\ Begin(c, p)
    /\ IF ~fs[p].dir THEN Finish(c, "not_found")
       ELSE IF ~fs[p].meta.exists THEN Finish(c, "corrupted")
       ELSE IF "paths" \notin fs[p].meta.keys THEN Finish(c, "corrupted")
       ELSE IF "status" \notin fs[p].meta.keys THEN Finish(c, "key_error")
       ELSE IF already_active(fs[p].meta) THEN Finish(c, "already_active")
       ELSE /\ pc' = [pc EXCEPT ![c] = "activate_write"]
            /\ result' = [result EXCEPT ![c] = "pending"]
            /\ local' = [local EXCEPT ![c] = fs[p].meta]
    /\ NoTouch(c, TRUE)
    /\ UNCHANGED <<fs, now>>
    /\ UNCHANGED <<engineVars, libVars>>

\* is_active = True, last_active_pid = os.getpid(), last_used = now on the
\* dict that was read, then json.dump into metadata.json.
activate_write(c) ==
    /\ pc[c] = "activate_write"
    /\ IF ~fs[arg[c]].dir
       THEN Finish(c, "file_not_found_error") /\ UNCHANGED fs
                /\ NoTouch(c, FALSE)
       ELSE /\ fs' = [fs EXCEPT ![arg[c]].meta =
                         [local[c] EXCEPT !.is_active = TRUE,
                                          !.last_active_pid = getpid(c),
                                          !.last_used = now]]
            /\ Goto(c, "activate_lock")
            /\ Touch(c, arg[c], FALSE)
    /\ UNCHANGED <<arg, now>>
    /\ UNCHANGED <<engineVars, libVars>>

\* lock_file.write_text(str(os.getpid()))
activate_lock(c) ==
    /\ pc[c] = "activate_lock"
    /\ IF ~fs[arg[c]].dir
       THEN Finish(c, "file_not_found_error") /\ UNCHANGED fs
                /\ NoTouch(c, FALSE)
       ELSE /\ fs' = [fs EXCEPT ![arg[c]].lock = getpid(c)]
            /\ Finish(c, "activated")
            /\ Touch(c, arg[c], FALSE)
    /\ UNCHANGED <<arg, now>>
    /\ UNCHANGED <<engineVars, libVars>>

\* The guard refuses every active profile, forced or not.
delete_blocked_always(metadata, force) == metadata.is_active

\* `if metadata["status"]["is_active"] and not force: raise ValueError`
delete_blocked(metadata, force) == metadata.is_active /\ ~force

\* delete_profile: ValueError without the directory, FileNotFoundError from
\* open() without metadata.json, KeyError from metadata["status"] without
\* that key, ValueError for an active profile unless forced, otherwise
\* shutil.rmtree of the profile directory.
delete_profile(c, p, force) ==
    /\ Begin(c, p)
    /\ IF ~fs[p].dir
       THEN Finish(c, "not_found") /\ UNCHANGED fs /\ NoTouch(c, TRUE)
       ELSE IF ~fs[p].meta.exists
       THEN Finish(c, "file_not_found_error") /\ UNCHANGED fs
                /\ NoTouch(c, TRUE)
       ELSE IF "status" \notin fs[p].meta.keys
       THEN Finish(c, "key_error") /\ UNCHANGED fs /\ NoTouch(c, TRUE)
       ELSE IF delete_blocked(fs[p].meta, force)
       THEN Finish(c, "active_error") /\ UNCHANGED fs /\ NoTouch(c, TRUE)
       ELSE /\ fs' = [fs EXCEPT ![p] = NoDir]
            /\ Finish(c, IF fs[p].meta.is_active
                         THEN "force_deleted"
                         ELSE "deleted")
            /\ Touch(c, p, TRUE)
    /\ UNCHANGED now
    /\ UNCHANGED <<engineVars, libVars>>

\* delete_profile as the file-system calls of one process among others: first
\* everything up to the guard, on the metadata.json read by this call.
delete_check(c, p, force) ==
    /\ Begin(c, p)
    /\ IF ~fs[p].dir THEN Finish(c, "not_found")
       ELSE IF ~fs[p].meta.exists THEN Finish(c, "file_not_found_error")
       ELSE IF "status" \notin fs[p].meta.keys THEN Finish(c, "key_error")
       ELSE IF delete_blocked(fs[p].meta, force)
       THEN Finish(c, "active_error")
       ELSE /\ pc' = [pc EXCEPT ![c] = IF force THEN "delete_rmtree_force"
                                                ELSE "delete_rmtree"]
            /\ result' = [result EXCEPT ![c] = "pending"]
            /\ local' = [local EXCEPT ![c] = fs[p].meta]
    /\ NoTouch(c, TRUE)
    /\ UNCHANGED <<fs, now>>
    /\ UNCHANGED <<engineVars, libVars>>

\* ... then shutil.rmtree(profile_dir), on whatever is on disk by then;
\* FileNotFoundError when the directory is gone.
delete_rmtree(c) ==
    /\ pc[c] \in {"delete_rmtree", "delete_rmtree_force"}
    /\ IF ~fs[arg[c]].dir
       THEN Finish(c, "file_not_found_error") /\ UNCHANGED fs
                /\ NoTouch(c, FALSE)
       ELSE /\ fs' = [fs EXCEPT ![arg[c]] = NoDir]
            /\ Finish(c, IF pc[c] = "delete_rmtree_force"
                         THEN "force_deleted"
                         ELSE "deleted")
            /\ Touch(c, arg[c], FALSE)
    /\ UNCHANGED <<arg, now>>
    /\ UNCHANGED <<engineVars, libVars>>

\* DirectoryManager.get_profile_dir: the path, after mkdir(parents=True,
\* exist_ok=True) on it.
get_profile_dir(dirs, p) == [dirs EXCEPT ![p].dir = TRUE]

\* shutil.copy2(session_file, backup_file): the file named after the second of
\* the clock is created or overwritten; copy2 gives it the modification time
\* of session.json.  `op` records which create_backup call wrote the file.
copy2(d, t) ==
    {b \in d.backups : b.name # t}
        \cup {[name |-> t, mtime |-> d.session_mtime,
               op |-> d.backup_calls + 1]}

\* _prune_backups that deletes nothing.
prune_keeps_all(files, max_backups) == {files}

\* _prune_backups: the files sorted by st_mtime, newest first; the first
\* max_backups are kept.  Files of equal st_mtime sort in any order.
prune_keeps(files, max_backups) ==
    {keep \in SUBSET files :
        /\ Cardinality(keep) = Min(max_backups, Cardinality(files))
        /\ \A k \in keep : \A o \in files \ keep : k.mtime >= o.mtime}

\* create_backup: get_profile_dir creates the directory if it is missing, so
\* the exists test never fails; open() raises FileNotFoundError without
\* metadata.json and metadata["backup"] KeyError without that key; nothing is
\* done with backups disabled; copy2 raises
\* FileNotFoundError without session.json; then the backups are pruned.
create_backup(c, p) ==
    /\ Begin(c, p)
    /\ fs[p].backup_calls < MaxBackupCalls
    /\ LET dirs == get_profile_dir(fs, p)
           d == dirs[p]
       IN  IF ~d.meta.exists
           THEN fs' = dirs /\ Finish(c, "file_not_found_error")
           ELSE IF "backup" \notin d.meta.keys
           THEN fs' = dirs /\ Finish(c, "key_error")
           ELSE IF ~d.meta.enabled
           THEN fs' = dirs /\ Finish(c, "backup_disabled")
           ELSE IF ~d.skeleton
           THEN fs' = dirs /\ Finish(c, "file_not_found_error")
           ELSE /\ \E keep \in prune_keeps(copy2(d, now), d.meta.max_backups) :
                      fs' = [dirs EXCEPT ![p].backups = keep,
                                         ![p].backup_calls = @ + 1]
                /\ Finish(c, "backed_up")
    /\ IF fs' = fs THEN NoTouch(c, TRUE) ELSE Touch(c, p, TRUE)
    /\ UNCHANGED now
    /\ UNCHANGED <<engineVars, libVars>>

\* One second of wall-clock time passes.
clock_tick ==
    /\ now < MaxTime
    /\ now' = now + 1
    /\ UNCHANGED <<fs, pc, arg, local, result, interleaved>>
    /\ UNCHANGED <<engineVars, libVars>>

\* ---------------------------------------------------------------- lifecycle
\* ---------------------------------------------------- the active registry
\* src/src/BrowserManager/runtime_state.py: a module-level set and three
\* functions.  The profile ids the callers pass.
RegistryIds == {"p1", "p2"}

\* ACTIVE_PROFILES = set()
RegistryInit ==
    /\ ACTIVE_PROFILES = {}
    /\ reg_log = <<>>
    /\ reg_raised = FALSE

\* set.add(x)
set_add(s, x) == s \cup {x}

\* set.remove(x): raises KeyError for a value that is not a member.
set_remove(s, x) == [set |-> s \ {x}, raised |-> x \notin s]

\* set.discard(x): never raises.
set_discard(s, x) == [set |-> s \ {x}, raised |-> FALSE]

register(profile_id) ==
    /\ Len(reg_log) < MaxRegistryCalls
    /\ ACTIVE_PROFILES' = set_add(ACTIVE_PROFILES, profile_id)
    /\ reg_raised' = FALSE
    /\ reg_log' = Append(reg_log, [op |-> "register", id |-> profile_id])
    /\ UNCHANGED <<engineVars, profileVars, cryptoVars, kdf_log, mgr>>

unregister(profile_id) ==
    /\ Len(reg_log) < MaxRegistryCalls
    /\ ACTIVE_PROFILES' = set_discard(ACTIVE_PROFILES, profile_id).set
    /\ reg_raised' = set_discard(ACTIVE_PROFILES, profile_id).raised
    /\ reg_log' = Append(reg_log, [op |-> "unregister", id |-> profile_id])
    /\ UNCHANGED <<engineVars, profileVars, cryptoVars, kdf_log, mgr>>

\* count(): len(ACTIVE_PROFILES)
count == Cardinality(ACTIVE_PROFILES)

\* ------------------------------------------------- the cipher's callers
\* One MessageEncryptor and one MessageDecryptor per key; the callers encrypt
\* a value and then try decryptions of what came back, of a tampered copy and
\* with other arguments.
Keys == {"k1", "k2"}
Urandom12 == {Bytes(<<"n1">>), Bytes(<<"n2">>)}
Plaintexts ==
    {Str(<<"a">>), Str(<<>>), Bytes(<<"a">>), Bytes(<<"xff">>), Bytes(<<>>)}
AssociatedData == {None, Bytes(<<>>), Bytes(<<"m1">>), Bytes(<<"m2">>)}
MessageIdArgs == {None, Str(<<>>), Str(<<"m1">>), Str(<<"m2">>)}

NoCall == [fn |-> "none"]

CryptoInit ==
    /\ sealed = NoCall
    /\ opened = NoCall

\* A copy of the ciphertext with a flipped bit.
Tampered(ciphertext) ==
    Bytes(<<[ciphertext.data[1] EXCEPT !.tag = "flipped"]>>)

\* The nonces and ciphertexts a caller may hand to a decrypt method.
NonceArgs == Urandom12 \cup {Bytes(<<"wrong_nonce">>)}
CiphertextArgs ==
    IF sealed.fn = "none" \/ sealed.out.raised # "" THEN {}
    ELSE {sealed.out.ciphertext, Tampered(sealed.out.ciphertext),
          Bytes(<<>>)}

Encrypt(key, plaintext, associated_data) ==
    \E nonce \in Urandom12 :
        /\ opened = NoCall
        /\ sealed' = [fn |-> "encrypt", key |-> key, plaintext |-> plaintext,
                      aad |-> associated_data,
                      out |-> encrypt(key, nonce, plaintext, associated_data)]
        /\ opened' = NoCall
        /\ UNCHANGED <<engineVars, profileVars, registryVars, kdf_log, mgr>>

EncryptBytes(key, data, associated_data) ==
    \E nonce \in Urandom12 :
        /\ opened = NoCall
        /\ data.type = "bytes"
        /\ sealed' = [fn |-> "encrypt_bytes", key |-> key, plaintext |-> data,
                      aad |-> associated_data,
                      out |-> encrypt_bytes(key, nonce, data,
                                            associated_data)]
        /\ opened' = NoCall
        /\ UNCHANGED <<engineVars, profileVars, registryVars, kdf_log, mgr>>

EncryptMessage(key, message, message_id) ==
    \E nonce \in Urandom12 :
        /\ opened = NoCall
        /\ message.type = "str"
        /\ sealed' = [fn |-> "encrypt_message", key |-> key,
                      plaintext |-> message, aad |-> message_id,
                      out |-> encrypt_message(key, nonce, message,
                                              message_id)]
        /\ opened' = NoCall
        /\ UNCHANGED <<engineVars, profileVars, registryVars, kdf_log, mgr>>

\* A decryption of something given the arguments of the caller's choice.
Decrypted(fn, key, nonce, ciphertext, aad) ==
    [fn |-> fn, key |-> key, nonce |-> nonce, ciphertext |-> ciphertext,
     aad |-> aad,
     out |-> CASE fn = "decrypt" -> decrypt(key, nonce, ciphertext, aad)
               [] fn = "decrypt_bytes" ->
                      decrypt_bytes(key, nonce, ciphertext, aad)
               [] fn = "decrypt_safe" ->
                      decrypt_safe(key, nonce, ciphertext, aad)
               [] fn = "decrypt_message" ->
                      decrypt_message(key, nonce, ciphertext, aad)]

\* A state holds the last encryption and the last decryption only, so every
\* run is one encryption (a caller may redo it) and one decryption of it.
CanDecrypt ==
    sealed.fn # "none" /\ sealed.out.raised = "" /\ opened = NoCall

Decrypt(key, nonce, ciphertext, associated_data) ==
    /\ CanDecrypt
    /\ opened' = Decrypted("decrypt", key, nonce, ciphertext, associated_data)
    /\ UNCHANGED <<engineVars, profileVars, registryVars, sealed, kdf_log, mgr>>

DecryptBytes(key, nonce, ciphertext, associated_data) ==
    /\ CanDecrypt
    /\ opened' = Decrypted("decrypt_bytes", key, nonce, ciphertext,
                           associated_data)
    /\ UNCHANGED <<engineVars, profileVars, registryVars, sealed, kdf_log, mgr>>

DecryptSafe(key, nonce, ciphertext, associated_data) ==
    /\ CanDecrypt
    /\ opened' = Decrypted("decrypt_safe", key, nonce, ciphertext,
                           associated_data)
    /\ UNCHANGED <<engineVars, profileVars, registryVars, sealed, kdf_log, mgr>>

DecryptMessage(key, nonce, ciphertext, message_id) ==
    /\ CanDecrypt
    /\ opened' = Decrypted("decrypt_message", key, nonce, ciphertext,
                           message_id)
    /\ UNCHANGED <<engineVars, profileVars, registryVars, sealed, kdf_log, mgr>>

\* ------------------------------------------------------- key derivation
\* A KeyManager built with its default parameters.  The passwords and salts its
\* callers pass, and the salts os.urandom(16) returns.
Passwords == {Str(<<>>), Str(<<"pw">>), Bytes(<<>>), Bytes(<<"pw">>)}
Salts ==
    {Bytes(<<>>), Bytes(<<"s7">>), Bytes(<<"s8">>), Bytes(<<"invalid_salt">>),
     Bytes(<<"s16a">>), Bytes(<<"s16b">>)}
Urandom16 == {Bytes(<<"s16a">>), Bytes(<<"s16b">>)}

\* Argon2id(salt, length, iterations, lanes, memory_cost).derive(password):
\* `length` bytes that are a function of the password and the salt, different
\* for different inputs.
argon2id(password, salt, length) ==
    Bytes(<<[kdf |-> "argon2id", password |-> password.data,
             salt |-> salt.data, length |-> length]>>)

\* len(key) of a derived key
key_len(key) == key.data[1].length

\* derive_key without the test of the salt's length.
derive_key_any_salt(password, salt) ==
    LET pw == IF password.type = "str" THEN utf8_encode(password)
              ELSE password
    IN  IF ~truthy(pw) THEN [raised |-> "ValueError", value |-> None]
        ELSE IF ~truthy(salt) THEN [raised |-> "ValueError", value |-> None]
        ELSE [raised |-> "", value |-> argon2id(pw, salt, DEFAULT_KEY_LENGTH)]

\* KeyManager.derive_key(password, salt)
derive_key(password, salt) ==
    LET pw == IF password.type = "str" THEN utf8_encode(password)
              ELSE password
    IN  IF ~truthy(pw) THEN [raised |-> "ValueError", value |-> None]
        ELSE IF ~truthy(salt) \/ py_len(salt) < MinSaltLen
        THEN [raised |-> "ValueError", value |-> None]
        ELSE [raised |-> "", value |-> argon2id(pw, salt, DEFAULT_KEY_LENGTH)]

\* derive_key_and_salt that returns a salt generated anew next to the key.
derive_key_and_salt_resalt(password, salt) ==
    LET out == derive_key(password, salt)
    IN  IF out.raised # "" THEN [raised |-> out.raised, salt |-> None,
                                 value |-> None]
        ELSE [raised |-> "",
              salt |-> CHOOSE other \in Urandom16 : other # salt,
              value |-> out.value]

\* KeyManager.derive_key_and_salt(password) with the salt that generate_salt
\* (os.urandom(16)) returned: (salt, key).
derive_key_and_salt(password, salt) ==
    LET out == derive_key(password, salt)
    IN  IF out.raised # "" THEN [raised |-> out.raised, salt |-> None,
                                 value |-> None]
        ELSE [raised |-> "", salt |-> salt, value |-> out.value]

DeriveKey(password, salt) ==
    /\ Len(kdf_log) < MaxDerives
    /\ kdf_log' = Append(kdf_log,
                         [fn |-> "derive_key", password |-> password,
                          salt |-> salt, out |-> derive_key(password, salt)])
    /\ UNCHANGED <<engineVars, profileVars, registryVars, cryptoVars,
                       mgr>>

DeriveKeyAndSalt(password) ==
    \E salt \in Urandom16 :
        /\ Len(kdf_log) < MaxDerives
        /\ kdf_log' = Append(kdf_log,
                             [fn |-> "derive_key_and_salt",
                              password |-> password, salt |-> None,
                              out |-> derive_key_and_salt(password, salt)])
        /\ UNCHANGED <<engineVars, profileVars, registryVars, cryptoVars,
                       mgr>>

\* ------------------------------------------------------- the browser manager
\* src/src/BrowserManager/__init__.py: the BrowserManager objects of one
\* process (one event loop) in profile mode, each built for a profile and with
\* a headless setting.  __GetBrowser__ runs without suspending up to
\* `await cam_browser.getInstance()`, the launch of the browser.
Managers == {1, 2}
LaunchIds == {"A", "B"}

\* BrowserManager(profile_id=..., headless=...) after __init__: no browser.
NewManager(profile_id, headless) ==
    [profile_id |-> profile_id, headless |-> headless, browser |-> "none",
     pc |-> "idle", effective_headless |-> FALSE, raised |-> ""]

\* BrowserManager(): profile_id None, headless False.
BrowserInit == mgr = [m \in Managers |-> NewManager("None", FALSE)]

\* `if len(active_profiles) > 0: effective_headless = True` else the
\* configured value: active_profiles is what get_active_profiles reads from
\* the metadata files on disk.
effective_headless(headless) ==
    IF Cardinality(get_active_profiles) > 0 THEN TRUE ELSE headless

\* getInstance -> __GetBrowser__ of manager m up to the await of the launch:
\* pm.get_profile raises ValueError without metadata.json, before anything is
\* registered; otherwise the profile_id is registered, the headless value is
\* decided and the launch is awaited.  With self.browser set getInstance
\* returns it.
GetBrowser(m) ==
    /\ mgr[m].pc = "idle"
    /\ mgr[m].browser = "none"
    /\ LET id == mgr[m].profile_id
       IN  IF ~fs[id].meta.exists
           THEN /\ mgr' = [mgr EXCEPT ![m].raised = "ValueError"]
                /\ UNCHANGED ACTIVE_PROFILES
           ELSE /\ ACTIVE_PROFILES' = set_add(ACTIVE_PROFILES, id)
                /\ mgr' = [mgr EXCEPT
                              ![m].pc = "launching",
                              ![m].raised = "",
                              ![m].effective_headless =
                                  effective_headless(mgr[m].headless)]
    /\ UNCHANGED <<engineVars, profileVars, reg_log, reg_raised, cryptoVars,
                   kdf_log>>

\* `self.browser = await cam_browser.getInstance()` completes: the browser is
\* open, or the launch raised; nothing around the await catches, so the
\* exception leaves __GetBrowser__ and self.browser stays None.
launch_done(m) ==
    /\ mgr[m].pc = "launching"
    /\ \E ok \in BOOLEAN :
          mgr' = [mgr EXCEPT ![m].pc = "idle",
                             ![m].browser = IF ok THEN "open" ELSE "none",
                             ![m].raised = IF ok THEN "" ELSE "LaunchError"]
    /\ UNCHANGED <<engineVars, profileVars, registryVars, cryptoVars, kdf_log>>

\* CloseBrowser with a browser: the pages and the context are closed, every
\* exception of that swallowed, and in `finally` the profile_id is
\* unregistered and self.browser = None.  Without a browser it does nothing.
CloseBrowser(m) ==
    /\ mgr[m].pc = "idle"
    /\ mgr[m].browser = "open"
    /\ ACTIVE_PROFILES' = set_discard(ACTIVE_PROFILES, mgr[m].profile_id).set
    /\ mgr' = [mgr EXCEPT ![m].browser = "none"]
    /\ UNCHANGED <<engineVars, profileVars, reg_log, reg_raised, cryptoVars,
                   kdf_log>>

EngineInit ==
    /\ conn = "none"
    /\ tableExists = FALSE
    /\ committed = <<>>
    /\ connRows = <<>>
    /\ running = FALSE
    /\ wpc = "none"
    /\ cancelReq = FALSE
    /\ batch = <<>>
    /\ queue = <<>>
    /\ sinceFlush = 0
    /\ timer = 0
    /\ cpc = "idle"
    /\ enqueued = <<>>
    /\ enqBusy = FALSE
    /\ flushed = {}
    /\ failing = FALSE
    /\ atClose = {}
    /\ closeReturned = FALSE
    /\ reclosed = FALSE
    /\ encryptor \in BOOLEAN

Init ==
    /\ EngineInit
    /\ ProfileInit
    /\ RegistryInit
    /\ CryptoInit
    /\ kdf_log = <<>>
    /\ BrowserInit

\* init_db: open the connection.  The owner calls the lifecycle operations one
\* after another (as __aenter__/__aexit__ do), so none starts while close_db
\* is suspended; init_db on an open connection (a leaked connection) is not
\* part of this model.
init_db ==
    /\ cpc = "idle"
    /\ conn = "none"
    /\ conn' = "open"
    /\ closeReturned' = FALSE
    /\ reclosed' = FALSE
    /\ atClose' = {}
    /\ UNCHANGED <<tableExists, committed, connRows, running, wpc, cancelReq,
                   batch, queue, sinceFlush, timer, cpc, enqueued, enqBusy,
                   flushed, failing>>
    /\ UNCHANGED <<encryptor, profileVars, libVars>>

\* create_table: raises StorageError without a connection (no state change),
\* otherwise CREATE TABLE IF NOT EXISTS + commit, which also commits whatever
\* the connection's open transaction holds.
create_table ==
    /\ cpc = "idle"
    /\ conn = "open"
    /\ tableExists' = TRUE
    /\ committed' = connRows
    /\ UNCHANGED <<conn, connRows, running, wpc, cancelReq, batch, queue,
                   sinceFlush, timer, cpc, histVars>>
    /\ UNCHANGED <<encryptor, profileVars, libVars>>

\* start_writer: returns at once while a task exists that is not done;
\* otherwise sets _running and creates the task.
start_writer ==
    /\ cpc = "idle"
    /\ ~WriterAlive
    /\ running' = TRUE
    /\ wpc' = "start"
    /\ cancelReq' = FALSE
    /\ batch' = <<>>
    /\ failing' = FALSE
    /\ closeReturned' = FALSE
    /\ reclosed' = FALSE
    /\ UNCHANGED <<dbVars, queue, sinceFlush, timer, cpc, enqueued, enqBusy,
                   flushed, atClose>>
    /\ UNCHANGED <<encryptor, profileVars, libVars>>

\* ------------------------------------------------------------- the producer
\* asyncio.Queue.full(): never, for a queue built with maxsize <= 0.
queue_full(q) == QueueMaxsize > 0 /\ Len(q) >= QueueMaxsize

\* await self.queue.put(msg): appends at the tail.
queue_put(q, msg) == Append(q, msg)

\* Only the first message of the list is put.
PutFirst(q, msgs) == Append(q, Head(msgs))

\* for msg in msgs: await self.queue.put(msg)
RECURSIVE PutAll(_, _)
PutAll(q, msgs) ==
    IF msgs = <<>> THEN q
    ELSE PutAll(queue_put(q, Head(msgs)), Tail(msgs))

\* No put of the loop finds the queue full, so no put suspends the caller.
RECURSIVE NoPutWaits(_, _)
NoPutWaits(q, msgs) ==
    IF msgs = <<>> THEN TRUE
    ELSE ~queue_full(q) /\ NoPutWaits(queue_put(q, Head(msgs)), Tail(msgs))

\* enqueue_insert(msgs) running to its return without suspending: a put on a
\* queue that is not full does not yield to the event loop, so the whole call
\* is one atomic step.
enqueue_insert(msgs) ==
    /\ Len(enqueued) + Len(msgs) <= MaxEnqueued
    /\ NoPutWaits(queue, msgs)
    /\ queue' = PutAll(queue, msgs)
    /\ enqueued' = enqueued \o msgs
    /\ enqBusy' = (wpc \in {"exec", "commit", "sleep"})
    /\ UNCHANGED <<dbVars, running, wpc, cancelReq, batch, sinceFlush, timer,
                   cpc, flushed, failing, atClose, closeReturned,
                   reclosed>>
    /\ UNCHANGED <<encryptor, profileVars, libVars>>

\* The producer hands a list to enqueue_insert; one built with an encryption
\* key encrypts every message of the list first, each with a fresh nonce.
Enqueue ==
    \E msgs \in CallArgs :
        IF encryptor
        THEN \E nonces \in [DOMAIN msgs -> Nonces] :
                 enqueue_insert([i \in DOMAIN msgs |->
                                    FetcherEncrypt(msgs[i], nonces[i])])
        ELSE enqueue_insert(msgs)

\* --------------------------------------------------------------- the writer
\* The size trigger alone.
should_flush_size_only(n, elapsed) == n >= BatchSize

\* The size trigger off by one.
should_flush_strict(n, elapsed) ==
    n > BatchSize \/ (n > 0 /\ elapsed >= FlushInterval)

\* should_flush = len(batch) >= self.batch_size or
\*                (batch and current_time - last_flush >= self.flush_interval)
should_flush(n, elapsed) ==
    n >= BatchSize \/ (n > 0 /\ elapsed >= FlushInterval)

\* batch.insert(0, msg)
batch_prepend(b, msg) == <<msg>> \o b

\* batch.append(msg)
batch_append(b, msg) == Append(b, msg)

\* A loop that goes on while the queue holds messages: `while self._running
\* or not self.queue.empty()`.
LoopTest_drain(b) ==
    IF running \/ queue # <<>> THEN "wait"
    ELSE IF b = <<>> THEN "done"
    ELSE IF conn = "none" THEN "failed"
    ELSE IF ToRecords(b) = <<>> THEN "done"
    ELSE "final_exec"

\* Where the coroutine goes when it reaches `while self._running` with batch b:
\* back to the queue wait, or out of the loop to `if batch: insert` and its end.
\* _insert_batch_internally raises StorageError at once without a connection,
\* and outside the loop nothing catches it: the task ends with the exception.
LoopTest(b) ==
    IF running THEN "wait"
    ELSE IF b = <<>> THEN "done"
    ELSE IF conn = "none" THEN "failed"
    ELSE IF ToRecords(b) = <<>> THEN "done"
    ELSE "final_exec"

\* An error handler that also clears the batch.
loop_except_clear(b) ==
    /\ wpc' = "sleep"
    /\ timer' = 0
    /\ failing' = TRUE
    /\ batch' = <<>>

\* `except Exception as e: log.error(...); await asyncio.sleep(1)`: an error of
\* the insert skips batch.clear() and last_flush = current_time; the batch b is
\* kept as it is and the task sleeps.
loop_except(b) ==
    /\ wpc' = "sleep"
    /\ timer' = 0
    /\ failing' = TRUE
    /\ batch' = b

\* The loop body after the queue wait, with batch b: read the clock, evaluate
\* should_flush and either call _insert_batch_internally or go round the loop.
\* The insert raises StorageError without a connection; it returns at once,
\* without touching the database, when no message converts to a record
\* (`if not records: return`), and the loop then clears the batch as after any
\* successful insert; otherwise it suspends at executemany.
Evaluate(b) ==
    IF should_flush(Len(b), sinceFlush) /\ b # <<>>
    THEN IF conn = "none"
         THEN loop_except(b) /\ UNCHANGED <<sinceFlush, flushed>>
         ELSE IF ToRecords(b) = <<>>
         THEN /\ batch' = <<>>
              /\ sinceFlush' = 0
              /\ flushed' = flushed \cup SeqToSet(b)
              /\ failing' = FALSE
              /\ wpc' = LoopTest(<<>>)
              /\ timer' = 0
         ELSE /\ wpc' = "exec" /\ timer' = 0 /\ failing' = failing
              /\ batch' = b
              /\ UNCHANGED <<sinceFlush, flushed>>
    ELSE /\ wpc' = LoopTest(b) /\ timer' = 0 /\ failing' = failing
         /\ batch' = b
         /\ UNCHANGED <<sinceFlush, flushed>>

\* First run of the task: batch = [], last_flush = now, enter the loop.
writer_begin ==
    /\ wpc = "start"
    /\ ~cancelReq
    /\ batch' = <<>>
    /\ sinceFlush' = 0
    /\ timer' = 0
    /\ wpc' = LoopTest(<<>>)
    /\ UNCHANGED <<dbVars, running, cancelReq, queue, cpc, histVars>>
    /\ UNCHANGED <<encryptor, profileVars, libVars>>

\* wait_for(self.queue.get(), timeout) returns a message.  With a cancellation
\* requested and the get already complete, asyncio.wait_for of Python 3.8-3.11
\* returns the message and the cancellation is gone; Python 3.12 raises
\* CancelledError instead (writer_cancelled).  Both are outcomes of this code.
writer_get ==
    /\ wpc = "wait"
    /\ queue # <<>>
    /\ queue' = Tail(queue)
    /\ enqBusy' = (enqBusy /\ Tail(queue) # <<>>)
    /\ cancelReq' = FALSE
    /\ Evaluate(batch_append(batch, Head(queue)))
    /\ UNCHANGED <<dbVars, running, cpc, enqueued, atClose, closeReturned,
                   reclosed>>
    /\ UNCHANGED <<encryptor, profileVars, libVars>>

\* wait_for raises TimeoutError after flush_interval: `pass`, then evaluate.
writer_timeout ==
    /\ wpc = "wait"
    /\ ~cancelReq
    /\ timer >= FlushInterval
    /\ Evaluate(batch)
    /\ UNCHANGED <<dbVars, running, cancelReq, queue, cpc, enqueued, enqBusy,
                   atClose, closeReturned, reclosed>>
    /\ UNCHANGED <<encryptor, profileVars, libVars>>

\* await self._conn.executemany(insert_sql, records) completes: the statement
\* ran on all records, or raised after the first k of them (at the first one
\* when the table does not exist).  Rows inserted before the error stay in the
\* connection's open transaction.
exec_done ==
    /\ wpc = "exec"
    /\ ~cancelReq
    /\ LET records == ToRecords(batch)
       IN  \E k \in 0..Len(records) :
             /\ ~tableExists => k = 0
             /\ connRows' = RowsAfter(records, k)
             /\ IF k = Len(records) /\ tableExists
                THEN wpc' = "commit" /\ UNCHANGED <<timer, failing, batch>>
                ELSE loop_except(batch)
    /\ UNCHANGED <<conn, tableExists, committed, running, cancelReq, queue,
                   sinceFlush, cpc, enqueued, enqBusy, flushed, atClose,
                   closeReturned,
                   reclosed>>
    /\ UNCHANGED <<encryptor, profileVars, libVars>>

\* await self._conn.commit() completes.  Success: the transaction's rows are
\* committed, then batch.clear() and last_flush = current_time.  Failure: the
\* transaction stays open or is rolled back by SQLite, depending on the error;
\* StorageError is raised and caught by the loop.
commit_done ==
    /\ wpc = "commit"
    /\ ~cancelReq
    /\ \/ /\ committed' = connRows
          /\ connRows' = connRows
          /\ flushed' = flushed \cup SeqToSet(batch)
          /\ batch' = <<>>
          /\ sinceFlush' = timer
          /\ failing' = FALSE
          /\ wpc' = LoopTest(<<>>)
          /\ timer' = 0
       \/ /\ \E rollback \in BOOLEAN :
                connRows' = IF rollback THEN committed ELSE connRows
          /\ loop_except(batch)
          /\ UNCHANGED <<committed, flushed, sinceFlush>>
    /\ UNCHANGED <<conn, tableExists, running, cancelReq, queue, cpc, enqueued,
                   enqBusy, atClose, closeReturned,
                   reclosed>>
    /\ UNCHANGED <<encryptor, profileVars, libVars>>

\* await asyncio.sleep(1) in the loop's `except Exception` ends.
sleep_done ==
    /\ wpc = "sleep"
    /\ ~cancelReq
    /\ timer >= Backoff
    /\ wpc' = LoopTest(batch)
    /\ timer' = 0
    /\ UNCHANGED <<dbVars, running, cancelReq, batch, queue, sinceFlush, cpc,
                   histVars>>
    /\ UNCHANGED <<encryptor, profileVars, libVars>>

\* The executemany of the insert after the loop (`if batch:`) completes; an
\* error is not caught there and ends the task.
final_exec_done ==
    /\ wpc = "final_exec"
    /\ LET records == ToRecords(batch)
       IN  \E k \in 0..Len(records) :
             /\ ~tableExists => k = 0
             /\ connRows' = RowsAfter(records, k)
             /\ IF k = Len(records) /\ tableExists
                THEN wpc' = "final_commit" /\ UNCHANGED <<batch, failing>>
                ELSE wpc' = "failed" /\ batch' = <<>> /\ failing' = TRUE
    /\ UNCHANGED <<conn, tableExists, committed, running, cancelReq, queue,
                   sinceFlush, timer, cpc, enqueued, enqBusy, flushed, atClose,
                   closeReturned,
                   reclosed>>
    /\ UNCHANGED <<encryptor, profileVars, libVars>>

\* The commit of the insert after the loop completes; the coroutine returns.
final_commit_done ==
    /\ wpc = "final_commit"
    /\ \/ /\ committed' = connRows
          /\ connRows' = connRows
          /\ flushed' = flushed \cup SeqToSet(batch)
          /\ failing' = FALSE
          /\ wpc' = "done"
       \/ /\ \E rollback \in BOOLEAN :
                connRows' = IF rollback THEN committed ELSE connRows
          /\ wpc' = "failed"
          /\ failing' = TRUE
          /\ UNCHANGED <<committed, flushed>>
    /\ batch' = <<>>
    /\ UNCHANGED <<conn, tableExists, running, cancelReq, queue, sinceFlush,
                   timer, cpc, enqueued, enqBusy, atClose, closeReturned,
                   reclosed>>
    /\ UNCHANGED <<encryptor, profileVars, libVars>>

\* CancelledError is raised in the coroutine at its await.  It is a
\* BaseException: the loop's `except Exception` does not catch it, the task
\* ends cancelled and its locals (batch, last_flush) are gone.  A statement
\* already handed to the connection still runs there: an executemany may have
\* inserted its rows into the open transaction, a commit may have committed it.
writer_cancelled ==
    /\ WriterAlive
    /\ cancelReq
    /\ cancelReq' = FALSE
    /\ wpc' = "cancelled"
    /\ batch' = <<>>
    /\ sinceFlush' = 0
    /\ timer' = 0
    /\ CASE wpc = "exec" ->
              /\ \E k \in {0, Len(ToRecords(batch))} :
                    /\ ~tableExists => k = 0
                    /\ connRows' = RowsAfter(ToRecords(batch), k)
              /\ UNCHANGED <<committed, flushed>>
         [] wpc = "commit" ->
              \/ /\ committed' = connRows
                 /\ flushed' = flushed \cup SeqToSet(batch)
                 /\ UNCHANGED connRows
              \/ UNCHANGED <<committed, connRows, flushed>>
         [] OTHER -> UNCHANGED <<committed, connRows, flushed>>
    /\ UNCHANGED <<conn, tableExists, running, queue, cpc, enqueued, enqBusy,
                   failing, atClose, closeReturned,
                   reclosed>>
    /\ UNCHANGED <<encryptor, profileVars, libVars>>

\* One second of loop time passes.  A message already in the queue, a timeout
\* that is due, a sleep that is over and a requested cancellation are taken
\* without time passing.
Tick ==
    /\ wpc \in {"wait", "exec", "commit", "sleep"}
    /\ ~cancelReq
    /\ ~(wpc = "wait" /\ (queue # <<>> \/ timer >= FlushInterval))
    /\ ~(wpc = "sleep" /\ timer >= Backoff)
    /\ sinceFlush < FlushInterval \/ timer < FlushInterval
    /\ sinceFlush' = Min(sinceFlush + 1, FlushInterval)
    /\ timer' = Min(timer + 1, FlushInterval)
    /\ UNCHANGED <<dbVars, running, wpc, cancelReq, batch, queue, cpc,
                   histVars>>
    /\ UNCHANGED <<encryptor, profileVars, libVars>>

\* ------------------------------------------------------------------ close_db
\* close_db up to its first await: _running = False, cancel the task if there
\* is one and await it; without a task go on to the connection.
close_begin ==
    /\ cpc = "idle"
    /\ running' = FALSE
    /\ reclosed' = closeReturned
    /\ atClose' = IF WriterAlive /\ conn = "open" /\ tableExists
                  THEN MsgIds(batch)
                  ELSE {}
    /\ IF wpc # "none"
       THEN /\ cancelReq' = WriterAlive
            /\ cpc' = "join"
            /\ closeReturned' = FALSE
       ELSE /\ cancelReq' = cancelReq
            /\ cpc' = IF conn = "open" THEN "connclose" ELSE "idle"
            /\ closeReturned' = (conn # "open")
    /\ UNCHANGED <<dbVars, wpc, batch, queue, sinceFlush, timer, enqueued,
                   enqBusy, flushed, failing>>
    /\ UNCHANGED <<encryptor, profileVars, libVars>>

\* close_db that forgets its task: `self._writer_task = None` is left out.
close_join_keep_task ==
    /\ cpc = "join"
    /\ wpc \in {"cancelled", "done", "failed"}
    /\ IF wpc = "failed"
       THEN /\ cpc' = "idle"
            /\ UNCHANGED <<wpc, closeReturned>>
       ELSE /\ wpc' = wpc
            /\ cpc' = IF conn = "open" THEN "connclose" ELSE "idle"
            /\ closeReturned' = (conn # "open")
    /\ UNCHANGED <<dbVars, running, cancelReq, batch, queue, sinceFlush, timer,
                   enqueued, enqBusy, flushed, failing, atClose, reclosed>>
    /\ UNCHANGED <<encryptor, profileVars, libVars>>

\* `await self._writer_task` returns: CancelledError is swallowed, a normal end
\* passes, and then _writer_task = None; a task that ended with StorageError
\* re-raises it here and close_db is left with the connection still open.
close_join ==
    /\ cpc = "join"
    /\ wpc \in {"cancelled", "done", "failed"}
    /\ IF wpc = "failed"
       THEN /\ cpc' = "idle"
            /\ UNCHANGED <<wpc, closeReturned>>
       ELSE /\ wpc' = "none"
            /\ cpc' = IF conn = "open" THEN "connclose" ELSE "idle"
            /\ closeReturned' = (conn # "open")
    /\ UNCHANGED <<dbVars, running, cancelReq, batch, queue, sinceFlush, timer,
                   enqueued, enqBusy, flushed, failing, atClose, reclosed>>
    /\ UNCHANGED <<encryptor, profileVars, libVars>>

\* `await self._conn.close()` returns: the open transaction is rolled back,
\* then _conn = None.
close_conn ==
    /\ cpc = "connclose"
    /\ conn' = "none"
    /\ connRows' = committed
    /\ cpc' = "idle"
    /\ closeReturned' = TRUE
    /\ UNCHANGED <<tableExists, committed, running, wpc, cancelReq, batch,
                   queue, sinceFlush, timer, enqueued, enqBusy, flushed,
                   failing, atClose, reclosed>>
    /\ UNCHANGED <<encryptor, profileVars, libVars>>

\* -------------------------------------------------------------------- reads
\* check_message_if_exists: SELECT 1 ... on a connection of its own, which
\* sees committed rows only; any error (no table) is logged and gives False.
check_message_if_exists(msg_id) ==
    tableExists /\ \E i \in DOMAIN committed : committed[i].message_id = msg_id

\* check_message_if_exists_async: the same SELECT on self._conn, the writer's
\* connection, which also sees the rows of its open transaction; False
\* without a connection or on any error (no table).
check_message_if_exists_async(msg_id) ==
    /\ conn = "open"
    /\ tableExists
    /\ \E i \in DOMAIN connRows : connRows[i].message_id = msg_id

\* ORDER BY id DESC
RECURSIVE OrderByIdDesc(_)
OrderByIdDesc(rows) ==
    IF rows = {} THEN <<>>
    ELSE LET top == CHOOSE r \in rows : \A o \in rows : o.id <= r.id
         IN  <<top>> \o OrderByIdDesc(rows \ {top})

\* get_all_messages(limit, offset): SELECT * FROM messages ORDER BY id DESC
\* LIMIT ? OFFSET ? on a connection of its own; [] on any error.
get_all_messages(limit, offset) ==
    IF ~tableExists THEN <<>>
    ELSE LET all == OrderByIdDesc(SeqToSet(committed))
         IN  SubSeq(all, offset + 1, Min(Len(all), offset + limit))

\* get_all_messages_async(limit, offset): the same SELECT on self._conn, the
\* writer's connection; [] without a connection or on any error (no table).
get_all_messages_async(limit, offset) ==
    IF conn # "open" \/ ~tableExists THEN <<>>
    ELSE LET all == OrderByIdDesc(SeqToSet(connRows))
         IN  SubSeq(all, offset + 1, Min(Len(all), offset + limit))

\* ------------------------------------------------------------ specification
Writer ==
    \/ writer_begin
    \/ writer_get
    \/ writer_timeout
    \/ exec_done
    \/ commit_done
    \/ sleep_done
    \/ final_exec_done
    \/ final_commit_done
    \/ writer_cancelled

Next ==
    \/ init_db
    \/ create_table
    \/ start_writer
    \/ Enqueue
    \/ Writer
    \/ Tick
    \/ close_begin
    \/ close_join
    \/ close_conn

Spec == Init /\ [][Next]_vars

\* The event loop runs every task that is ready and its clock advances.
FairSpec == Spec /\ WF_vars(Writer) /\ WF_vars(Tick)

\* The callers of ProfileManager, next to an engine that is not used.
ProfileNext ==
    \/ \E c \in Callers, p \in ProfileIds : create_profile(c, p)
    \/ \E c \in Callers : create_mkroot(c)
    \/ \E c \in Callers : create_mkcache(c)
    \/ \E c \in Callers : create_skeleton(c)
    \/ \E c \in Callers : create_metadata(c)
    \/ \E c \in Callers, p \in ProfileIds : get_profile(c, p)
    \/ \E c \in Callers, p \in ProfileIds : activate_profile(c, p)
    \/ \E c \in Callers : activate_write(c)
    \/ \E c \in Callers : activate_lock(c)
    \/ \E c \in Callers, p \in ProfileIds, force \in BOOLEAN :
           delete_profile(c, p, force)
    \/ \E c \in Callers, p \in ProfileIds : create_backup(c, p)
    \/ clock_tick

\* The engine stays in its initial state; its producer has no key.
ProfileSpecInit == Init /\ ~encryptor

ProfileSpec == ProfileSpecInit /\ [][ProfileNext]_vars

\* The callers of the registry, next to an engine and a profile store that are
\* not used.
RegistryNext ==
    \/ \E id \in RegistryIds : register(id)
    \/ \E id \in RegistryIds : unregister(id)

RegistrySpecInit == Init /\ ~encryptor

RegistrySpec == RegistrySpecInit /\ [][RegistryNext]_vars

\* The callers of the cipher, next to an engine, a profile store and a
\* registry that are not used.
CryptoNext ==
    \/ \E key \in Keys, plaintext \in Plaintexts, aad \in AssociatedData :
           Encrypt(key, plaintext, aad)
    \/ \E key \in Keys, data \in Plaintexts, aad \in AssociatedData :
           EncryptBytes(key, data, aad)
    \/ \E key \in Keys, message \in Plaintexts, id \in MessageIdArgs :
           EncryptMessage(key, message, id)
    \/ \E key \in Keys, nonce \in NonceArgs, ciphertext \in CiphertextArgs,
          aad \in AssociatedData : Decrypt(key, nonce, ciphertext, aad)
    \/ \E key \in Keys, nonce \in NonceArgs, ciphertext \in CiphertextArgs,
          aad \in AssociatedData : DecryptBytes(key, nonce, ciphertext, aad)
    \/ \E key \in Keys, nonce \in NonceArgs, ciphertext \in CiphertextArgs,
          aad \in AssociatedData : DecryptSafe(key, nonce, ciphertext, aad)
    \/ \E key \in Keys, nonce \in NonceArgs, ciphertext \in CiphertextArgs,
          id \in MessageIdArgs :
           DecryptMessage(key, nonce, ciphertext, id)

CryptoSpecInit == Init /\ ~encryptor

CryptoSpec == CryptoSpecInit /\ [][CryptoNext]_vars

\* The callers of the key manager, next to the rest, which is not used.
KdfNext ==
    \/ \E password \in Passwords, salt \in Salts : DeriveKey(password, salt)
    \/ \E password \in Passwords : DeriveKeyAndSalt(password)

KdfSpecInit == Init /\ ~encryptor

KdfSpec == KdfSpecInit /\ [][KdfNext]_vars

\* A profile directory with its skeleton and the metadata.
FullDir(metadata) ==
    [dir |-> TRUE, cache |-> TRUE, skeleton |-> TRUE, meta |-> metadata,
     lock |-> 0, session_mtime |-> 0, backups |-> {}, backup_calls |-> 0]

\* What activate_profile can find on disk for a profile: no directory, a
\* directory without metadata.json, and a profile whose metadata.json has any
\* of the keys.
DiskStates ==
    {NoDir, [NoDir EXCEPT !.dir = TRUE]}
        \cup {FullDir([generate_metadata(0) EXCEPT !.keys = k]) :
                  k \in SUBSET MetaKeys}

\* Callers of activate_profile on a profile directory in any of these states,
\* next to an engine, a registry and a cipher that are not used.
ActivateNext ==
    \/ \E c \in Callers, p \in ProfileIds : activate_profile(c, p)
    \/ \E c \in Callers : activate_write(c)
    \/ \E c \in Callers : activate_lock(c)
    \/ clock_tick

ActivateSpecInit ==
    /\ EngineInit
    /\ ~encryptor
    /\ \E d \in DiskStates : ProfileStart([p \in ProfileIds |-> d])
    /\ RegistryInit
    /\ CryptoInit
    /\ kdf_log = <<>>
    /\ BrowserInit

ActivateSpec == ActivateSpecInit /\ [][ActivateNext]_vars

\* The profiles create_backup can find: created, no backup taken yet, the
\* backup policy of the metadata set to anything (the metadata is the
\* profile's configuration; create_profile writes enabled with max_backups).
BackupPolicies ==
    {FullDir([generate_metadata(0) EXCEPT !.enabled = e, !.max_backups = m]) :
         e \in BOOLEAN, m \in 0..MaxBackups}

\* Callers of create_backup on such a profile, next to the rest, which is not
\* used.
BackupNext ==
    \/ \E c \in Callers, p \in ProfileIds : create_backup(c, p)
    \/ clock_tick

BackupSpecInit ==
    /\ EngineInit
    /\ ~encryptor
    /\ \E d \in BackupPolicies : ProfileStart([p \in ProfileIds |-> d])
    /\ RegistryInit
    /\ CryptoInit
    /\ kdf_log = <<>>
    /\ BrowserInit

BackupSpec == BackupSpecInit /\ [][BackupNext]_vars

\* A profile that activate_profile of process pid activated.
Activated(pid) ==
    [FullDir([generate_metadata(0) EXCEPT !.is_active = TRUE,
                                          !.last_active_pid = pid])
        EXCEPT !.lock = pid]

\* What a launch can find on disk for a profile: nothing, the profile as
\* create_profile leaves it, or the profile activated.
LaunchDisks == {NoDir, FullDir(generate_metadata(0)), Activated(1)}

\* The BrowserManager objects of a process, each for a profile and with a
\* headless setting, next to the rest, which is not used.
BrowserNext ==
    \/ \E m \in Managers : GetBrowser(m)
    \/ \E m \in Managers : launch_done(m)
    \/ \E m \in Managers : CloseBrowser(m)

BrowserSpecInit ==
    /\ EngineInit
    /\ ~encryptor
    /\ \E dirs \in [LaunchIds -> LaunchDisks] : ProfileStart(dirs)
    /\ RegistryInit
    /\ CryptoInit
    /\ kdf_log = <<>>
    /\ \E ids \in [Managers -> LaunchIds], h \in [Managers -> BOOLEAN] :
          mgr = [m \in Managers |-> NewManager(ids[m], h[m])]

BrowserSpec == BrowserSpecInit /\ [][BrowserNext]_vars

\* The processes of ProfileSpec with delete_profile taken call by call of the
\* file system, as create_profile and activate_profile are, on a profile that
\* was created and not yet activated.
LifetimeNext ==
    \/ \E c \in Callers, p \in ProfileIds : create_profile(c, p)
    \/ \E c \in Callers : create_mkroot(c)
    \/ \E c \in Callers : create_mkcache(c)
    \/ \E c \in Callers : create_skeleton(c)
    \/ \E c \in Callers : create_metadata(c)
    \/ \E c \in Callers, p \in ProfileIds : get_profile(c, p)
    \/ \E c \in Callers, p \in ProfileIds : activate_profile(c, p)
    \/ \E c \in Callers : activate_write(c)
    \/ \E c \in Callers : activate_lock(c)
    \/ \E c \in Callers, p \in ProfileIds, force \in BOOLEAN :
           delete_check(c, p, force)
    \/ \E c \in Callers : delete_rmtree(c)
    \/ \E c \in Callers, p \in ProfileIds : create_backup(c, p)
    \/ clock_tick

LifetimeSpecInit ==
    /\ EngineInit
    /\ ~encryptor
    /\ ProfileStart([p \in ProfileIds |-> FullDir(generate_metadata(0))])
    /\ RegistryInit
    /\ CryptoInit
    /\ kdf_log = <<>>
    /\ BrowserInit

LifetimeSpec == LifetimeSpecInit /\ [][LifetimeNext]_vars

\* ------------------------------------------------------------------- claims
UniqueMessageIds(tbl) ==
    \A i, j \in DOMAIN tbl : tbl[i].message_id = tbl[j].message_id => i = j

RowsOf(tbl, msg_id) == {i \in DOMAIN tbl : tbl[i].message_id = msg_id}

IsPrefix(s, t) == Len(s) <= Len(t) /\ SubSeq(t, 1, Len(s)) = s

\* The message_ids of the messages of s that _message_to_record converts.
ConvertibleIds(s) ==
    {s[i].message_id : i \in {j \in DOMAIN s : ~record_raises(s[j])}}

\* The engine is Ready: connection open, table present, writer started.
Ready == conn = "open" /\ tableExists /\ running /\ WriterAlive

\* C1. Idempotent ingestion: whatever is enqueued and flushed, the table (as
\* committed and as the writer's connection sees it) holds at most one row per
\* message_id, and exactly one committed row for every message of a batch whose
\* flush succeeded and whose conversion to a record did not raise.
C1_IdempotentIngestion ==
    /\ UniqueMessageIds(committed)
    /\ UniqueMessageIds(connRows)
    /\ \A m \in flushed :
          ~record_raises(m)
              => Cardinality(RowsOf(committed, m.message_id)) = 1

\* C1 witness: m1 was flushed twice, with two texts, and is stored once, the
\* writer still alive and its last insert not failed.
C1_Witness ==
    /\ \E m, n \in flushed : m.message_id = n.message_id /\ m # n
    /\ Cardinality(RowsOf(committed, "m1")) = 1
    /\ wpc = "wait"
    /\ ~failing

\* C2. Drain on close: when close_db has returned, every message that was in
\* the writer's batch at the close request (the connection open and the table
\* present) is committed.
C2_DrainOnClose == closeReturned => atClose \subseteq CommittedIds

\* C3. Eventual storage: a message in the queue of a Ready engine, one that
\* converts to a record, is eventually visible to check_message_if_exists,
\* unless the engine is closed or a batch insert fails.
C3_EventualStorage ==
    \A id \in Ids :
        (/\ Ready
         /\ \E i \in DOMAIN queue :
               queue[i].message_id = id /\ ~record_raises(queue[i]))
            ~> (check_message_if_exists(id) \/ ~running \/ failing)

\* C3 witness: fewer than batch_size messages were ever enqueued and one is
\* stored, on an engine that never failed an insert and is still Ready.
C3_Witness ==
    /\ Ready
    /\ ~failing
    /\ Len(enqueued) < BatchSize
    /\ \E id \in MsgIds(enqueued) : check_message_if_exists(id)

\* C4. Flush failure keeps the batch: an insert that fails inside the writer
\* loop leaves the task alive and asleep with its batch intact; while the last
\* insert has failed the batch only grows at its tail until an insert succeeds,
\* which stores all of it (every message that converts to a record); and every
\* later evaluation attempts the insert again (it suspends in the insert,
\* fails again, or the insert returns at once having nothing to convert).
C4_FailureKeepsBatch ==
    /\ [][(wpc' = "sleep" /\ wpc # "sleep")
            => (batch' # <<>> /\ IsPrefix(batch, batch') /\ failing')]_vars
    /\ [][(failing /\ wpc \in {"wait", "exec", "commit", "sleep"}
                   /\ wpc' \in {"wait", "exec", "commit", "sleep"})
            => \/ IsPrefix(batch, batch')
               \/ /\ ~failing'
                  /\ ConvertibleIds(batch) \subseteq MsgIds(committed')]_vars
    /\ [][(failing /\ wpc = "wait" /\ (batch' # batch \/ timer' < timer))
            => \/ wpc' \in {"exec", "sleep", "cancelled"}
               \/ batch' = <<>> /\ ~failing']_vars

\* C4 witness: an insert failed, a later message joined the batch behind the
\* failed ones (the batch is beyond batch_size) and the insert of all of them
\* is being attempted again.
C4_Witness ==
    /\ failing
    /\ wpc = "exec"
    /\ Len(batch) > BatchSize

\* The writer no longer retries: its task ended or was never started.
Escalated == ~WriterAlive

\* C5. Escalation: if batch inserts keep failing, the engine eventually leaves
\* the retry loop (a fatal error or a state the caller can query).
C5_Escalation == (<>[]failing) => <>[]Escalated

\* C6. exists is consistent with committed state: both lookups report a
\* message_id only if a committed row holds it.
C6_ExistsCommitted ==
    \A id \in Ids :
        /\ check_message_if_exists(id) => id \in CommittedIds
        /\ check_message_if_exists_async(id) => id \in CommittedIds

EnqueuedOnce(id) ==
    Cardinality({i \in DOMAIN enqueued : enqueued[i].message_id = id}) = 1

EnqPos(id) == CHOOSE i \in DOMAIN enqueued : enqueued[i].message_id = id

\* C7. Commit order follows enqueue order: rows are stored in ascending id,
\* rows of message_ids enqueued once are in enqueue order, and
\* get_all_messages returns the committed rows in descending id order.
C7_CommitOrder ==
    LET rows == get_all_messages(DefaultLimit, DefaultOffset)
    IN  /\ \A i, j \in DOMAIN committed :
              i < j =>
                /\ committed[i].id < committed[j].id
                /\ (EnqueuedOnce(committed[i].message_id)
                      /\ EnqueuedOnce(committed[j].message_id))
                     => EnqPos(committed[i].message_id)
                          < EnqPos(committed[j].message_id)
        /\ Len(rows) = Len(committed)
        /\ \A i \in DOMAIN rows : rows[i] = committed[Len(committed) + 1 - i]

\* C7 witness: m2 and m1, each enqueued once and in that order, are both
\* stored, and the newest row is the first one get_all_messages returns.
C7_Witness ==
    /\ Len(committed) = 2
    /\ EnqueuedOnce("m1") /\ EnqueuedOnce("m2")
    /\ EnqPos("m2") < EnqPos("m1")
    /\ get_all_messages(1, 0) = <<committed[2]>>
    /\ committed[2].message_id = "m1"

\* C8. First-write-wins: a committed row never changes, whatever is ingested
\* later under its message_id: same position, same id, same content.
C8_FirstWriteWins ==
    [][\A i \in DOMAIN committed :
           i \in DOMAIN committed' /\ committed'[i] = committed[i]]_vars

\* C8 witness: a message with another text than the stored row of its
\* message_id went through a successful flush.
C8_Witness ==
    \E m \in flushed : \E i \in DOMAIN committed :
        /\ committed[i].message_id = m.message_id
        /\ committed[i].raw_data # m.raw_data

\* C9. enqueue never blocks the producer: in every state, whatever the writer
\* is doing, enqueue_insert of any list (within the run's budget of messages)
\* can run to its return, and the step appends exactly the list, in order,
\* at the tail of the queue.
C9_EnqueueNeverBlocks ==
    /\ [](\A msgs \in CallArgs :
             Len(enqueued) + Len(msgs) <= MaxEnqueued
                 => ENABLED enqueue_insert(msgs))
    /\ [][\A msgs \in CallArgs :
             enqueued' = enqueued \o msgs => queue' = queue \o msgs]_vars

\* C9 witness: a list of two messages was enqueued while the writer was in an
\* insert or backing off, and both are at the tail of the queue.
C9_Witness ==
    /\ enqBusy
    /\ wpc \in {"exec", "commit", "sleep"}
    /\ Len(queue) >= 2
    /\ Len(enqueued) >= 2
    /\ SubSeq(queue, Len(queue) - 1, Len(queue))
          = SubSeq(enqueued, Len(enqueued) - 1, Len(enqueued))

\* C10. Dual flush trigger: an evaluation of the flush condition (after a
\* dequeue or a timeout) starts an insert exactly when the batch is non-empty
\* and holds batch_size messages or flush_interval has elapsed since the last
\* flush; no insert is ever in progress for an empty batch.
C10_DualTrigger ==
    /\ [][(/\ wpc = "wait"
           /\ \/ (queue # <<>> /\ queue' = Tail(queue))
              \/ (timer >= FlushInterval /\ timer' = 0 /\ wpc' # "cancelled"))
            => ((wpc' \in {"exec", "sleep"})
                  <=> (/\ batch' # <<>>
                       /\ \/ Len(batch') >= BatchSize
                          \/ sinceFlush >= FlushInterval))]_vars
    /\ [](wpc \in {"exec", "commit", "final_exec", "final_commit"}
            => batch # <<>>)

\* C10 witness: the interval trigger started an insert for a batch below
\* batch_size.
C10_Witness ==
    /\ wpc = "exec"
    /\ timer = 0
    /\ batch # <<>>
    /\ Len(batch) < BatchSize

\* C11. Closed is terminal: once close_db has returned on an engine whose
\* table had been created, no step opens the connection again or starts a
\* writer.
C11_ClosedTerminal ==
    [][(closeReturned /\ tableExists)
          => (conn' = "none" /\ ~WriterAlive')]_vars

\* The fields of the engine and of its database, without the history.
progVars ==
    <<conn, tableExists, committed, connRows, running, wpc, cancelReq, batch,
      queue, sinceFlush, timer, cpc>>

\* C12. close is safe to repeat: close_db called after a close_db that has
\* returned is over in one step, returns normally and changes no field of the
\* engine and no row: no task is cancelled or awaited, no connection closed.
C12_CloseRepeatable ==
    [][(closeReturned /\ close_begin)
          => (UNCHANGED progVars /\ closeReturned' /\ ~cancelReq')]_vars

\* C12 witness: an engine that had run a writer and stored rows was closed,
\* and close_db was called again and returned.
C12_Witness ==
    /\ reclosed
    /\ closeReturned
    /\ committed # <<>>
    /\ flushed # {}

\* The Fetcher encrypted this message.
IsEncrypted(m) == "encrypted_message" \in DOMAIN m

\* A row of tbl holds the message_id with a ciphertext and a nonce that
\* decrypt, with the producer's key and the message_id, to the row's text.
StoredEncrypted(tbl, m) ==
    \E i \in DOMAIN tbl :
        /\ tbl[i].message_id = m.message_id
        /\ decrypt_message(Key, b64decode(tbl[i].encryption_nonce),
                           b64decode(tbl[i].encrypted_message),
                           PyStr(tbl[i].message_id))
             = [raised |-> "", value |-> PyStr(tbl[i].raw_data)]

\* C13. End-to-end with encryption: when a Ready engine completes a flush, every
\* message of the batch that the producer had encrypted is stored, in a
\* committed row whose ciphertext and nonce decrypt to the text.
C13_EncryptedStored ==
    [][(Ready /\ flushed' # flushed)
          => \A m \in flushed' \ flushed :
                 IsEncrypted(m) => StoredEncrypted(committed', m)]_vars

\* The metadata of profile p reports is_active.
IsActive(p) == fs[p].meta.exists /\ fs[p].meta.is_active

\* C14. Profile creation is exclusive: create_profile on a profile directory
\* that exists ends with the already-exists error and changes nothing on disk;
\* on a directory that does not exist it goes on to create it, and a creation
\* no other caller interleaved with ends successfully, the whole skeleton in
\* place and the metadata just generated, is_active false.
C14_CreateExclusive ==
    /\ [][\A c \in Callers, p \in ProfileIds :
             (fs[p].dir /\ create_profile(c, p))
                 => /\ result'[c] = "already_exists"
                    /\ pc'[c] = "idle"
                    /\ fs' = fs]_vars
    /\ [][\A c \in Callers, p \in ProfileIds :
             (~fs[p].dir /\ create_profile(c, p))
                 => pc'[c] = "create_mkroot"]_vars
    /\ [][\A c \in Callers :
             (pc[c] \in CreateSteps /\ pc'[c] = "idle" /\ ~interleaved[c])
                 => /\ result'[c] = "created"
                    /\ fs'[arg[c]].dir /\ fs'[arg[c]].cache
                    /\ fs'[arg[c]].skeleton
                    /\ fs'[arg[c]].meta = generate_metadata(now)
                    /\ ~fs'[arg[c]].meta.is_active]_vars

\* C14 witness: one caller created the profile, the other's create on it was
\* refused, and the profile is there with its inactive metadata.
C14_Witness ==
    \E c, d \in Callers :
        /\ result[c] = "created" /\ result[d] = "already_exists"
        /\ arg[c] = arg[d]
        /\ pc[c] = "idle" /\ pc[d] = "idle"
        /\ fs[arg[c]].meta.exists /\ ~fs[arg[c]].meta.is_active

\* C15. Concurrent creation: of two callers whose create_profile calls on one
\* profile have ended, one with success and the other with an error of the
\* creation, the loser's error is the already-exists error.
C15_ConcurrentCreate ==
    \A c, d \in Callers :
        (/\ c # d
         /\ arg[c] = arg[d]
         /\ pc[c] = "idle" /\ pc[d] = "idle"
         /\ result[c] = "created"
         /\ result[d] \in {"already_exists", "file_exists_error"})
            => result[d] = "already_exists"

\* C16. Profile existence invariant: whenever no operation is under way, for
\* every profile the directory exists iff metadata.json exists iff
\* list_profiles returns it.
C16_ExistenceInvariant ==
    (\A c \in Callers : pc[c] = "idle")
        => \A p \in ProfileIds :
              /\ fs[p].dir <=> fs[p].meta.exists
              /\ fs[p].meta.exists <=> p \in list_profiles

\* C17. Active implies locked: in every state on disk, a profile whose
\* metadata reports is_active has a .lock file holding the pid that the
\* metadata records as the activating process.
C17_ActiveImpliesLocked ==
    \A p \in ProfileIds :
        IsActive(p)
            => fs[p].lock # 0 /\ fs[p].lock = fs[p].meta.last_active_pid

\* C18. activate is idempotent: activate_profile on a profile whose metadata
\* reports is_active returns in one step, without an error, and leaves
\* metadata.json, the .lock file and everything else on disk as they are,
\* whichever process calls.
C18_ActivateIdempotent ==
    [][\A c \in Callers, p \in ProfileIds :
          (IsActive(p) /\ activate_profile(c, p))
              => /\ fs' = fs
                 /\ pc'[c] = "idle"
                 /\ result'[c] = "already_active"]_vars

\* C18 witness: a process other than the one that activated the profile
\* called activate_profile on it and returned at once; metadata and lock name
\* the activating process.
C18_Witness ==
    \E c \in Callers :
        /\ result[c] = "already_active"
        /\ pc[c] = "idle"
        /\ IsActive(arg[c])
        /\ fs[arg[c]].meta.last_active_pid # getpid(c)
        /\ fs[arg[c]].lock = fs[arg[c]].meta.last_active_pid

\* C19. Delete guard: delete_profile without force on an active profile ends
\* with an error and changes nothing on disk; with force it succeeds, and the
\* directory with everything below it is gone and list_profiles no longer
\* returns the profile.
C19_DeleteGuard ==
    /\ [][\A c \in Callers, p \in ProfileIds :
             (IsActive(p) /\ delete_profile(c, p, FALSE))
                 => /\ result'[c] = "active_error"
                    /\ fs' = fs]_vars
    /\ [][\A c \in Callers, p \in ProfileIds :
             (IsActive(p) /\ delete_profile(c, p, TRUE))
                 => /\ result'[c] = "force_deleted"
                    /\ fs'[p] = NoDir
                    /\ p \notin list_profiles']_vars

\* C19 witness: a delete without force was refused on the active profile and
\* a forced delete then removed it.
C19_Witness ==
    \E c, d \in Callers :
        /\ result[c] = "active_error"
        /\ result[d] = "force_deleted"
        /\ arg[c] = arg[d]
        /\ ~fs[arg[c]].dir

\* The create_backup calls that wrote the backup files of profile p.
BackupOps(p) == {b.op : b \in fs[p].backups}

\* C20. Backup pruning bound: after max_backups or more create_backup calls
\* on a profile, exactly max_backups backup files remain and they are the
\* files of the max_backups most recent calls.
C20_BackupPruning ==
    \A p \in ProfileIds :
        fs[p].backup_calls >= MaxBackups
            => /\ Cardinality(fs[p].backups) = MaxBackups
               /\ BackupOps(p)
                    = (fs[p].backup_calls - MaxBackups + 1)
                          .. fs[p].backup_calls

\* The ids registered and not unregistered since, by the calls of log.
Registered(log) ==
    {id \in RegistryIds :
        \E i \in DOMAIN log :
            /\ log[i] = [op |-> "register", id |-> id]
            /\ \A j \in DOMAIN log :
                   j > i => log[j] # [op |-> "unregister", id |-> id]}

\* C21. Registry set semantics: after any sequence of register and unregister
\* calls count() is the number of distinct ids registered and not unregistered
\* since, and no call raised; register of an id that is present and unregister
\* of an id that is absent leave the set and the count as they were.
C21_RegistrySet ==
    /\ [](/\ count = Cardinality(Registered(reg_log))
          /\ ACTIVE_PROFILES = Registered(reg_log)
          /\ ~reg_raised)
    /\ [][\A id \in RegistryIds :
             (id \in ACTIVE_PROFILES /\ register(id))
                 => ACTIVE_PROFILES' = ACTIVE_PROFILES /\ count' = count]_vars
    /\ [][\A id \in RegistryIds :
             (id \notin ACTIVE_PROFILES /\ unregister(id))
                 => /\ ACTIVE_PROFILES' = ACTIVE_PROFILES
                    /\ count' = count
                    /\ ~reg_raised']_vars

\* p1 was registered twice and p2, never registered, was unregistered.
C21_Witness ==
    /\ reg_log = <<[op |-> "register", id |-> "p1"],
                   [op |-> "register", id |-> "p1"],
                   [op |-> "unregister", id |-> "p2"]>>
    /\ count = 1

\* The associated data a call binds: the one given, or the one made of the
\* message_id.
EffectiveAad(call) ==
    IF call.fn \in {"encrypt_message", "decrypt_message"}
    THEN message_aad(call.aad)
    ELSE call.aad

\* The last decryption was given the nonce and ciphertext the last encryption
\* returned, with the same key and the same associated data.
SameArguments ==
    /\ opened.fn # "none"
    /\ opened.key = sealed.key
    /\ opened.nonce = sealed.out.nonce
    /\ opened.ciphertext = sealed.out.ciphertext
    /\ EffectiveAad(opened).data = EffectiveAad(sealed).data

Returned(value) == [raised |-> "", value |-> value]

\* C22. Encryption round trip, as claimed: decrypt of what encrypt returned,
\* with the same key and associated data, returns a value equal to the
\* plaintext given to encrypt, whatever plaintext encrypt accepted.
C22_RoundTrip ==
    (sealed.fn = "encrypt" /\ opened.fn = "decrypt" /\ SameArguments)
        => opened.out = Returned(sealed.plaintext)

\* C22, amended. decrypt returns a str: it returns the plaintext given to
\* encrypt when that was a str, and for a bytes plaintext its UTF-8 decoding (or
\* UnicodeDecodeError); decrypt_bytes returns the bytes given to encrypt.
C22_RoundTripTyped ==
    (sealed.fn = "encrypt" /\ SameArguments)
        => /\ (opened.fn = "decrypt" /\ sealed.plaintext.type = "str")
                  => opened.out = Returned(sealed.plaintext)
           /\ (opened.fn = "decrypt_bytes" /\ sealed.plaintext.type = "bytes")
                  => opened.out = Returned(sealed.plaintext)
           /\ (opened.fn = "decrypt" /\ sealed.plaintext.type = "bytes")
                  => opened.out = utf8_decode(sealed.plaintext)

\* The str "a" was encrypted with associated data and decrypt gave it back.
C22_Witness ==
    /\ sealed.fn = "encrypt"
    /\ sealed.plaintext = Str(<<"a">>)
    /\ sealed.aad = Bytes(<<"m1">>)
    /\ opened.fn = "decrypt"
    /\ SameArguments
    /\ opened.out = Returned(Str(<<"a">>))

\* The last decryption was given a key, nonce, ciphertext or associated data
\* other than the one the last encryption used or returned.
DifferentArguments ==
    /\ opened.fn \in {"decrypt", "decrypt_bytes", "decrypt_message"}
    /\ ~SameArguments

\* C23. Tamper detection, as claimed: a decryption with a key, nonce,
\* associated data or ciphertext that differs fails with the authentication
\* failure.
C23_TamperDetection ==
    DifferentArguments => opened.out.raised = "InvalidTag"

\* C23, amended. Such a decryption never returns a value: it fails with the
\* invalid-input error when the nonce it is given is not 12 bytes long or the
\* ciphertext is empty, and with the authentication failure otherwise.
C23_TamperRejected ==
    DifferentArguments
        => /\ opened.out.value = None
           /\ opened.out.raised =
                  IF py_len(opened.nonce) # 12 \/ ~truthy(opened.ciphertext)
                  THEN "ValueError" ELSE "InvalidTag"

\* A ciphertext made for message id m1 was given to decrypt_message with
\* message id m2 and everything else as it was.
C23_Witness ==
    /\ sealed.fn = "encrypt_message"
    /\ sealed.aad = Str(<<"m1">>)
    /\ opened.fn = "decrypt_message"
    /\ opened.aad = Str(<<"m2">>)
    /\ opened.key = sealed.key
    /\ opened.nonce = sealed.out.nonce
    /\ opened.ciphertext = sealed.out.ciphertext
    /\ opened.out.raised = "InvalidTag"

\* C28. Safe decrypt: decrypt_safe returns what decrypt returns on the same
\* arguments when decrypt succeeds, and returns None, raising nothing, when
\* decrypt fails with the authentication failure or an invalid-input error.
C28_SafeDecrypt ==
    opened.fn = "decrypt_safe"
        => LET d == decrypt(opened.key, opened.nonce, opened.ciphertext,
                            opened.aad)
           IN  /\ d.raised = "" => opened.out = d
               /\ (d.raised = "InvalidTag" \/ IsValueError(d.raised))
                      => opened.out = Returned(None)

\* decrypt_safe was given the 11-byte nonce b"wrong_nonce" and returned None.
C28_Witness ==
    /\ opened.fn = "decrypt_safe"
    /\ opened.nonce = Bytes(<<"wrong_nonce">>)
    /\ opened.ciphertext = sealed.out.ciphertext
    /\ opened.out = Returned(None)

\* The calls of the log that returned a key, each with the secret it was given
\* (as bytes), the salt the key was derived with and the key.
Derivations ==
    {[secret |-> utf8_encode(kdf_log[i].password).data,
      salt |-> IF kdf_log[i].fn = "derive_key" THEN kdf_log[i].salt
               ELSE kdf_log[i].out.salt,
      key |-> kdf_log[i].out.value,
      fn |-> kdf_log[i].fn] :
        i \in {j \in DOMAIN kdf_log : kdf_log[j].out.raised = ""}}

\* C24. KDF determinism: two derivations with the same secret and salt return
\* the same key, of 32 bytes; derive_key_and_salt returns a salt of 16 bytes
\* and the key derive_key returns for that secret and salt; two derivations of
\* one secret with different salts return different keys.
C24_KdfDeterminism ==
    \A d, e \in Derivations :
        /\ key_len(d.key) = 32
        /\ d.fn = "derive_key_and_salt" => py_len(d.salt) = 16
        /\ (d.secret = e.secret /\ d.salt = e.salt) => d.key = e.key
        /\ (d.secret = e.secret /\ d.salt # e.salt) => d.key # e.key

\* derive_key_and_salt returned a salt and a key, and derive_key was then
\* called with the same password and that salt.
C24_Witness ==
    /\ Len(kdf_log) = 2
    /\ kdf_log[1].fn = "derive_key_and_salt"
    /\ kdf_log[1].out.raised = ""
    /\ kdf_log[2].fn = "derive_key"
    /\ kdf_log[2].password = kdf_log[1].password
    /\ kdf_log[2].salt = kdf_log[1].out.salt
    /\ kdf_log[2].out.value = kdf_log[1].out.value

C26_InvalidSaltRejected ==
    \A i \in DOMAIN kdf_log :
        (/\ kdf_log[i].fn = "derive_key"
         /\ truthy(kdf_log[i].password)
         /\ kdf_log[i].salt = Bytes(<<"invalid_salt">>))
            => kdf_log[i].out.raised = "ValueError"

\* The texts a message can carry.
Texts == {m.raw_data : m \in Messages}

\* What the producer hands over for message m in a run that differs from this
\* one only in the text of m, m being encrypted in both: the same message_id
\* with any text the Fetcher encrypts.  A message that is not encrypted is
\* the same in both runs.
Variant(m) ==
    IF IsEncrypted(m)
    THEN {v \in {FetcherEncrypt([message_id |-> m.message_id,
                                 raw_data |-> t], n) :
                    t \in Texts, n \in Nonces} : IsEncrypted(v)}
    ELSE {m}

\* The batches of such runs for the batch b of this one.
Variants(b) ==
    {b2 \in [DOMAIN b -> UNION {Variant(b[i]) : i \in DOMAIN b}] :
         \A i \in DOMAIN b : b2[i] \in Variant(b[i])}

\* The columns of the rows that are not the encrypted ones.
Public(tbl) ==
    [i \in DOMAIN tbl |->
        [id |-> tbl[i].id,
         message_id |-> tbl[i].message_id,
         raw_data |-> tbl[i].raw_data]]

\* The batch the writer flushes in this step: the batch of the task, with the
\* message just taken off the queue when the step is a queue.get.
FlushBatch ==
    IF wpc = "wait" /\ queue' # queue
    THEN batch_append(batch, Head(queue))
    ELSE batch

Inserted ==
    \E i \in DOMAIN connRows' :
        \A j \in DOMAIN connRows : connRows[j] # connRows'[i]

\* C30. Single-writer discipline: a writer task is created only when none is
\* alive; every step in which rows are inserted on the connection or the
\* committed table changes is a step of the writer task; and the reads and
\* existence checks of the producer side do not run on the writer's
\* connection: they answer from the committed rows, never from the rows of
\* the writer's open transaction.
C30_SingleWriter ==
    /\ [][(wpc' = "start" /\ wpc # "start") => ~WriterAlive]_vars
    /\ [][(Inserted \/ committed' # committed) => Writer]_vars
    /\ [](\A id \in Ids :
            check_message_if_exists_async(id)
                = (conn = "open" /\ check_message_if_exists(id)))
    /\ [](conn = "open"
            => get_all_messages_async(DefaultLimit, DefaultOffset)
                 = get_all_messages(DefaultLimit, DefaultOffset))

\* C31. Ready requires the schema: whenever the writer task is alive the
\* connection is open and the messages table exists; in particular
\* start_writer creates no task on an engine on which init_db and create_table
\* have not both succeeded.
C31_ReadyRequiresSchema ==
    WriterAlive => (conn = "open" /\ tableExists)

\* C32. Bounded pending batch: the writer's batch never holds more than
\* batch_size messages, and a batch that reached batch_size was flushed and
\* emptied before the task waits for the queue or sleeps again, also after
\* flushes that failed.
C32_BoundedBatch ==
    /\ Len(batch) <= BatchSize
    /\ wpc \in {"wait", "sleep"} => Len(batch) < BatchSize

\* The keys ProfileInfo.from_metadata requires of metadata.json: the
\* attributes of a profile, its paths map, backup policy and status.
RequiredKeys == {"paths", "backup", "status"}

\* activate_profile cannot use what is on disk for profile p: no directory, no
\* metadata.json, or a metadata.json that lacks a required key.
Unusable(p) ==
    \/ ~fs[p].dir
    \/ ~fs[p].meta.exists
    \/ ~(RequiredKeys \subseteq fs[p].meta.keys)

\* C33. activate fails cleanly: activate_profile on a profile whose directory
\* does not exist, whose metadata.json is missing or whose metadata lacks
\* required keys ends at once with an error, and the disk is as before: no
\* metadata written, no lock file and no directory created.
C33_ActivateFailsCleanly ==
    [][\A c \in Callers, p \in ProfileIds :
          (Unusable(p) /\ activate_profile(c, p))
              => /\ pc'[c] = "idle"
                 /\ result'[c] \in {"not_found", "corrupted", "key_error"}
                 /\ fs' = fs]_vars

\* Everything of a profile directory but its backup files.
LiveFiles(d) ==
    [dir |-> d.dir, cache |-> d.cache, skeleton |-> d.skeleton,
     meta |-> d.meta, lock |-> d.lock, session_mtime |-> d.session_mtime]

\* C34. Backup count bound and frame: when create_backup returns on a profile,
\* the backup directory holds at most max_backups backup files; with backups
\* disabled nothing on disk has changed; and in every case the live session
\* file, the metadata, the lock and the rest of the profile are as before:
\* only backup files were created or deleted.
C34_BackupBoundFrame ==
    [][\A c \in Callers, p \in ProfileIds :
          (fs[p].meta.exists /\ create_backup(c, p))
              => /\ pc'[c] = "idle"
                 /\ Cardinality(fs'[p].backups) <= fs[p].meta.max_backups
                 /\ ~fs[p].meta.enabled
                      => fs' = fs /\ result'[c] = "backup_disabled"
                 /\ LiveFiles(fs'[p]) = LiveFiles(fs[p])]_vars

\* C34 witness: on a profile that keeps one backup, create_backup returned
\* from its second call or a later one and pruned: one backup file is left.
C34_Witness ==
    \E c \in Callers :
        /\ result[c] = "backed_up"
        /\ fs[arg[c]].meta.max_backups = 1
        /\ fs[arg[c]].backup_calls >= 2
        /\ Cardinality(fs[arg[c]].backups) = 1

\* Manager m goes from idle into the launch of its browser in this step.
Launches(m) == mgr[m].pc = "idle" /\ mgr'[m].pc = "launching"

\* C35. Headless policy at launch: a manager that launches in profile mode
\* forces headless exactly when, before this launch, the registry of the
\* process holds a profile other than its own; otherwise, as for the first
\* profile of the process, it launches with its configured headless value,
\* whatever is activated on disk.
C35_HeadlessPolicy ==
    [][\A m \in Managers :
          Launches(m)
              => mgr'[m].effective_headless
                   = IF ACTIVE_PROFILES \ {mgr[m].profile_id} # {}
                     THEN TRUE
                     ELSE mgr[m].headless]_vars

\* Manager m holds a browser for the id, open or being launched.
Holds(m, id) ==
    /\ mgr[m].profile_id = id
    /\ mgr[m].browser = "open" \/ mgr[m].pc = "launching"

\* C39. Registry tracks open browsers: an id is in the registry only if some
\* manager holds a browser for it (so it is gone after CloseBrowser and after
\* a launch that failed), and it is in the registry while any manager holds a
\* browser for it, also when another manager for the same id has closed.
C39_RegistryTracksBrowsers ==
    \A id \in LaunchIds :
        id \in ACTIVE_PROFILES <=> \E m \in Managers : Holds(m, id)

\* The columns a row takes from its record.
RecordOf(row) ==
    [message_id |-> row.message_id,
     raw_data |-> row.raw_data,
     encrypted_message |-> row.encrypted_message,
     encryption_nonce |-> row.encryption_nonce]

\* The writer evaluates should_flush in this step and calls the insert on an
\* open connection.
CallsInsert ==
    /\ writer_get \/ writer_timeout
    /\ conn = "open"
    /\ FlushBatch # <<>>
    /\ should_flush(Len(FlushBatch), sinceFlush)

\* C36. Per-message conversion failure is isolated: a conversion that raises
\* never makes the insert fail (the insert called on an open connection either
\* hands the remaining records to executemany with the batch unchanged, or,
\* when no message converts, returns at once and the batch is cleared); when
\* the commit of a flush inside the loop succeeds, every message of the batch
\* that converts has a committed row, the batch is cleared, so that the
\* skipped messages are neither in the batch nor back on the queue, and the
\* flush counts as successful; and no committed row ever stems from a message
\* whose conversion raises.
C36_ConversionIsolated ==
    /\ [][CallsInsert
            => IF ConvertibleIds(FlushBatch) = {}
               THEN batch' = <<>> /\ ~failing' /\ wpc' # "sleep"
                    /\ committed' = committed
               ELSE wpc' = "exec" /\ batch' = FlushBatch
                    /\ failing' = failing]_vars
    /\ [][(commit_done /\ wpc' # "sleep")
            => /\ ConvertibleIds(batch) \subseteq MsgIds(committed')
               /\ batch' = <<>>
               /\ Len(queue') <= Len(queue)
               /\ ~failing']_vars
    /\ [](\A i \in DOMAIN committed :
             \E j \in DOMAIN enqueued :
                 /\ ~record_raises(enqueued[j])
                 /\ RecordOf(committed[i]) = message_to_record(enqueued[j]))

\* C36 witness: a flush of a batch holding a message whose conversion raises
\* and one that converts has completed: the second is committed, the first is
\* not, nothing is left in the batch and the flush did not fail.
C36_Witness ==
    /\ \E m1, m2 \in flushed :
           /\ record_raises(m1)
           /\ m1.message_id \notin CommittedIds
           /\ ~record_raises(m2)
           /\ m2.message_id \in CommittedIds
    /\ batch = <<>>
    /\ ~failing
    /\ wpc = "wait"

\* An activate_profile call on p has succeeded: metadata.json reports
\* is_active and the .lock file is written.
ActivationDone(p) == IsActive(p) /\ fs[p].lock # 0

\* The step is the rmtree of a delete_profile call made with force=True.
ForcedDelete(p) ==
    \E c \in Callers :
        pc[c] = "delete_rmtree_force" /\ arg[c] = p /\ delete_rmtree(c)

\* C37. Activation is never undone: from a state in which an activation of a
\* profile has succeeded, every step other than the removal of the profile by
\* a delete called with force leaves the metadata reporting is_active and the
\* lock file in place, so that get_active_profiles keeps returning the
\* profile; and a delete called without force in such a state fails and
\* changes nothing.
C37_ActivationPermanent ==
    /\ [][\A p \in ProfileIds :
             (ActivationDone(p) /\ ~ForcedDelete(p))
                 => /\ ActivationDone(p)'
                    /\ p \in get_active_profiles']_vars
    /\ [][\A c \in Callers, p \in ProfileIds :
             (ActivationDone(p) /\ delete_check(c, p, FALSE))
                 => result'[c] = "active_error" /\ fs' = fs]_vars

\* C38. Exclusive activation under interleaving: when two processes have both
\* activated the same inactive profile, their reads, metadata writes and lock
\* writes interleaved in any order, and both calls have returned, the .lock
\* file holds the pid that metadata.json records as last_active_pid.
C38_SingleOwner ==
    \A c, d \in Callers :
        (/\ c # d
         /\ arg[c] = arg[d]
         /\ pc[c] = "idle" /\ pc[d] = "idle"
         /\ result[c] = "activated" /\ result[d] = "activated")
            => /\ fs[arg[c]].lock # 0
               /\ fs[arg[c]].lock = fs[arg[c]].meta.last_active_pid

\* enqueue_insert on an engine without a live writer task (Uninitialized,
\* Closed, or any state between) returns without an error and changes nothing
\* but the queue; while no writer task is alive nothing is taken off the
\* queue and no row is inserted.
EnqueueWithoutWriter ==
    /\ [](\A msgs \in CallArgs :
             (Len(enqueued) + Len(msgs) <= MaxEnqueued /\ ~WriterAlive)
                 => ENABLED enqueue_insert(msgs))
    /\ [][(enqueued' # enqueued /\ ~WriterAlive)
            => /\ UNCHANGED <<dbVars, running, wpc, cpc, batch, flushed,
                              failing>>
               /\ IsPrefix(queue, queue')
               /\ Len(queue') - Len(queue)
                    = Len(enqueued') - Len(enqueued)]_vars
    /\ [][(~WriterAlive /\ ~WriterAlive')
            => IsPrefix(queue, queue') /\ ~Inserted]_vars

\* close_db is under way in this step.
Closing == cpc # "idle" \/ cpc' # "idle"

\* C40. enqueue ignores the engine state, as claimed: without a live writer
\* enqueue succeeds and the messages stay in the queue, unwritten; and while
\* close_db is under way nothing is taken off the queue, and the rows inserted
\* are rows of messages the writer had in its batch when close was called.
C40_EnqueueIgnoresState ==
    /\ EnqueueWithoutWriter
    /\ [][Closing => IsPrefix(queue, queue')]_vars
    /\ [][(Closing /\ Inserted)
            => MsgIds(connRows') \subseteq MsgIds(connRows) \cup atClose]_vars

\* C40, amended. As stated, except for the message at the head of the queue
\* when close is called while the writer waits on the queue: the writer may
\* still take that one message, the requested cancellation being lost with
\* it, and then leaves its loop for the insert after the loop; nothing else is
\* taken off the queue while close_db is under way, and the rows inserted are
\* rows of messages of the writer's batch.
C40_EnqueueIgnoresStateButHead ==
    /\ EnqueueWithoutWriter
    /\ [][(Closing /\ ~IsPrefix(queue, queue'))
            => /\ wpc = "wait" /\ cancelReq
               /\ queue' = Tail(queue)
               /\ ~cancelReq'
               /\ wpc' # "wait"]_vars
    /\ [][(Closing /\ Inserted)
            => MsgIds(connRows') \subseteq MsgIds(connRows) \cup MsgIds(batch)]_vars

\* C40 witness: close_db was called on a Ready engine whose writer waited on
\* the queue with an empty batch and two messages queued; the writer took the
\* first, left its loop and is committing it, close_db is waiting for the task
\* and the second message is still in the queue, in no row.
C40_Witness ==
    /\ cpc = "join"
    /\ conn = "open" /\ tableExists
    /\ atClose = {}
    /\ wpc = "final_commit"
    /\ Len(batch) = 1
    /\ queue # <<>>
    /\ MsgIds(queue) \cap MsgIds(connRows) = {}

====
